---- MODULE Spec2Model ----
(***************************************************************************)
(* A model of GPTImageDescriber's batch pipeline:                          *)
(*   - ImagesDescriber.add_metadata   (src/src/image_describer.py)         *)
(*   - filter_files_by_extension      (src/src/files_filter.py)            *)
(*   - CaptionCSVGenerator.write_data_to_csv                               *)
(*                                    (src/src/caption_csv_generator.py)   *)
(*   - terminate_processes_using_file (src/src/check_access.py)            *)
(* Text, a file name included, is a sequence of one-character strings, and *)
(* the file system is a function from the paths that exist to the content  *)
(* stored there.                                                           *)
(***************************************************************************)
EXTENDS Integers, Sequences, FiniteSets, TLC

VARIABLES
    prog,               \* which entry point runs: "add_metadata", "filter" or "csv"
    same_dir,           \* TRUE when dst_path is empty or equal to src_path
    image_files,        \* the item list (add_metadata) or the directory listing (filter)
    idx,                \* 1-based position of the for loop in image_files
    pc,                 \* position inside the handling of the current item
    fs,                 \* the file system: path -> content
    fs0,                \* the file system when the run started (never changes)
    temp_image_path,    \* the local variable of add_metadata; unbound until first assigned
    response,           \* response_data: what process_photo returned, while it is parsed
    parsed,             \* the locals title, description, keywords
    info,               \* the IPTC container held in memory
    processed_count,
    unprocessed_count,
    filtered_files,     \* the list filter_files_by_extension builds
    status,             \* "running", "done" (summary logged), "returned" (no summary),
                        \* "exit1" (sys.exit(1)) or "crashed" (uncaught exception)
    item_fs,            \* the file system when the handling of the current item began
    hist,               \* per handled item, what became of it (observation only)
    first_call,         \* what the first call of the filter left, once it has returned
    platform,           \* platform.system() of the host
    procs,              \* the processes of the host: pid -> what the lock guard can see
    processes,          \* the list the enumeration of the lock guard returned
    signalled,          \* the pids a termination signal was delivered to
    filepath,           \* the file the lock guard was called on
    proc_idx,           \* 1-based position of the for loop of the guard in processes
    process_time,       \* the elapsed time handed to a summary reporter, in seconds
    time_report,        \* how the reporter wrote the elapsed time in its log line
    logged              \* the lines the lock guard, or a parser called on its own, has
                        \* logged or printed

vars == <<prog, same_dir, image_files, idx, pc, fs, fs0, temp_image_path, response, parsed, info,
          processed_count, unprocessed_count, filtered_files, status, item_fs, hist,
          first_call, platform, procs, processes, signalled, filepath, proc_idx,
          process_time, time_report, logged>>

\* a line written by a logger call or by print
Log(level, about) == [level |-> level, about |-> about]

NoReport == [unit |-> "none", hours |-> 0, minutes |-> 0, seconds |-> 0, word |-> ""]

ReportsIdle ==
    /\ process_time = 0
    /\ time_report = NoReport
    /\ logged = <<>>

(***************************************************************************)
(* Bounds of the model.                                                    *)
(***************************************************************************)
MaxItems == 3
MaxCollide == 2

(***************************************************************************)
(* Characters and strings.                                                 *)
(***************************************************************************)
\* string.digits
Digits == {"0", "1", "2", "3", "4", "5", "6", "7", "8", "9"}

\* The characters below are those a string can hold here: U+0001 to U+00FF and the
\* characters of the Basic Multilingual Plane whose code ends in 80 to FF.

\* Python's \s for str patterns and the default of str.strip() / str.split(): the
\* characters with str.isspace(), which are tab, newline, vertical tab, form feed,
\* carriage return, the separators 1C to 1F, the space, NEL (85), the no-break space
\* (A0) and the Ogham space mark (1680)
Whitespace == {
    "\t", "\n", "", "\f", "\r", "", "", "", "", " ", "", " ", " "}

\* Python's \d for str patterns: the decimal digits of every script
UnicodeDigits == {
    "0", "1", "2", "3", "4", "5", "6", "7", "8", "9", "۰", "۱", "۲", "۳", "۴", "۵", "۶", "۷",
    "۸", "۹", "߀", "߁", "߂", "߃", "߄", "߅", "߆", "߇", "߈", "߉", "০", "১", "২", "৩", "৪", "৫",
    "৬", "৭", "৮", "৯", "૦", "૧", "૨", "૩", "૪", "૫", "૬", "૭", "૮", "૯", "௦", "௧", "௨", "௩",
    "௪", "௫", "௬", "௭", "௮", "௯", "೦", "೧", "೨", "೩", "೪", "೫", "೬", "೭", "೮", "೯", "෦", "෧",
    "෨", "෩", "෪", "෫", "෬", "෭", "෮", "෯", "໐", "໑", "໒", "໓", "໔", "໕", "໖", "໗", "໘", "໙",
    "႐", "႑", "႒", "႓", "႔", "႕", "႖", "႗", "႘", "႙", "០", "១", "២", "៣", "៤", "៥", "៦", "៧",
    "៨", "៩", "᧐", "᧑", "᧒", "᧓", "᧔", "᧕", "᧖", "᧗", "᧘", "᧙", "᪀", "᪁", "᪂", "᪃", "᪄", "᪅",
    "᪆", "᪇", "᪈", "᪉", "᪐", "᪑", "᪒", "᪓", "᪔", "᪕", "᪖", "᪗", "᪘", "᪙", "᮰", "᮱", "᮲", "᮳",
    "᮴", "᮵", "᮶", "᮷", "᮸", "᮹", "꣐", "꣑", "꣒", "꣓", "꣔", "꣕", "꣖", "꣗", "꣘", "꣙", "꧐", "꧑",
    "꧒", "꧓", "꧔", "꧕", "꧖", "꧗", "꧘", "꧙", "꧰", "꧱", "꧲", "꧳", "꧴", "꧵", "꧶", "꧷", "꧸", "꧹",
    "꯰", "꯱", "꯲", "꯳", "꯴", "꯵", "꯶", "꯷", "꯸", "꯹"}

\* the characters str.lower() changes, and below, at the same position, what it makes
\* of each
UpperChars == <<
    "A", "B", "C", "D", "E", "F", "G", "H", "I", "J", "K", "L", "M", "N", "O", "P", "Q", "R",
    "S", "T", "U", "V", "W", "X", "Y", "Z", "À", "Á", "Â", "Ã", "Ä", "Å", "Æ", "Ç", "È", "É",
    "Ê", "Ë", "Ì", "Í", "Î", "Ï", "Ð", "Ñ", "Ò", "Ó", "Ô", "Õ", "Ö", "Ø", "Ù", "Ú", "Û", "Ü",
    "Ý", "Þ", "Ƃ", "Ƅ", "Ƈ", "Ƌ", "Ǝ", "Ƒ", "Ƙ", "Ơ", "Ƣ", "Ƥ", "Ʀ", "Ƨ", "Ʃ", "Ƭ", "Ʈ", "Ư",
    "Ʊ", "Ʋ", "Ƴ", "Ƶ", "Ʒ", "Ƹ", "Ƽ", "Ǆ", "ǅ", "Ǉ", "ǈ", "Ǌ", "ǋ", "Ǎ", "Ǐ", "Ǒ", "Ǔ", "Ǖ",
    "Ǘ", "Ǚ", "Ǜ", "Ǟ", "Ǡ", "Ǣ", "Ǥ", "Ǧ", "Ǩ", "Ǫ", "Ǭ", "Ǯ", "Ǳ", "ǲ", "Ǵ", "Ƕ", "Ƿ", "Ǹ",
    "Ǻ", "Ǽ", "Ǿ", "Ά", "Έ", "Ή", "Ί", "Ό", "Ύ", "Ώ", "Α", "Β", "Γ", "Δ", "Ε", "Ζ", "Η", "Θ",
    "Ι", "Κ", "Λ", "Μ", "Ν", "Ξ", "Ο", "Π", "Ρ", "Σ", "Τ", "Υ", "Φ", "Χ", "Ψ", "Ω", "Ϊ", "Ϋ",
    "Ϗ", "Ϙ", "Ϛ", "Ϝ", "Ϟ", "Ϡ", "Ϣ", "Ϥ", "Ϧ", "Ϩ", "Ϫ", "Ϭ", "Ϯ", "ϴ", "Ϸ", "Ϲ", "Ϻ", "Ҁ",
    "Ҋ", "Ҍ", "Ҏ", "Ґ", "Ғ", "Ҕ", "Җ", "Ҙ", "Қ", "Ҝ", "Ҟ", "Ҡ", "Ң", "Ҥ", "Ҧ", "Ҩ", "Ҫ", "Ҭ",
    "Ү", "Ұ", "Ҳ", "Ҵ", "Ҷ", "Ҹ", "Һ", "Ҽ", "Ҿ", "Ӏ", "Ӂ", "Ӄ", "Ӆ", "Ӈ", "Ӊ", "Ӌ", "Ӎ", "Ӑ",
    "Ӓ", "Ӕ", "Ӗ", "Ә", "Ӛ", "Ӝ", "Ӟ", "Ӡ", "Ӣ", "Ӥ", "Ӧ", "Ө", "Ӫ", "Ӭ", "Ӯ", "Ӱ", "Ӳ", "Ӵ",
    "Ӷ", "Ӹ", "Ӻ", "Ӽ", "Ӿ", "Ꮀ", "Ꮁ", "Ꮂ", "Ꮃ", "Ꮄ", "Ꮅ", "Ꮆ", "Ꮇ", "Ꮈ", "Ꮉ", "Ꮊ", "Ꮋ", "Ꮌ",
    "Ꮍ", "Ꮎ", "Ꮏ", "Ꮐ", "Ꮑ", "Ꮒ", "Ꮓ", "Ꮔ", "Ꮕ", "Ꮖ", "Ꮗ", "Ꮘ", "Ꮙ", "Ꮚ", "Ꮛ", "Ꮜ", "Ꮝ", "Ꮞ",
    "Ꮟ", "Ꮠ", "Ꮡ", "Ꮢ", "Ꮣ", "Ꮤ", "Ꮥ", "Ꮦ", "Ꮧ", "Ꮨ", "Ꮩ", "Ꮪ", "Ꮫ", "Ꮬ", "Ꮭ", "Ꮮ", "Ꮯ", "Ꮰ",
    "Ꮱ", "Ꮲ", "Ꮳ", "Ꮴ", "Ꮵ", "Ꮶ", "Ꮷ", "Ꮸ", "Ꮹ", "Ꮺ", "Ꮻ", "Ꮼ", "Ꮽ", "Ꮾ", "Ꮿ", "Ᏸ", "Ᏹ", "Ᏺ",
    "Ᏻ", "Ᏼ", "Ᏽ", "Ა", "Ბ", "Გ", "Დ", "Ე", "Ვ", "Ზ", "Თ", "Ი", "Კ", "Ლ", "Მ", "Ნ", "Ო", "Პ",
    "Ჟ", "Რ", "Ს", "Ტ", "Უ", "Ფ", "Ქ", "Ღ", "Ყ", "Შ", "Ჩ", "Ც", "Ძ", "Წ", "Ჭ", "Ხ", "Ჯ", "Ჰ",
    "Ჱ", "Ჲ", "Ჳ", "Ჴ", "Ჵ", "Ჶ", "Ჷ", "Ჸ", "Ჹ", "Ჺ", "Ჽ", "Ჾ", "Ჿ", "Ẁ", "Ẃ", "Ẅ", "Ẇ", "Ẉ",
    "Ẋ", "Ẍ", "Ẏ", "Ẑ", "Ẓ", "Ẕ", "ẞ", "Ạ", "Ả", "Ấ", "Ầ", "Ẩ", "Ẫ", "Ậ", "Ắ", "Ằ", "Ẳ", "Ẵ",
    "Ặ", "Ẹ", "Ẻ", "Ẽ", "Ế", "Ề", "Ể", "Ễ", "Ệ", "Ỉ", "Ị", "Ọ", "Ỏ", "Ố", "Ồ", "Ổ", "Ỗ", "Ộ",
    "Ớ", "Ờ", "Ở", "Ỡ", "Ợ", "Ụ", "Ủ", "Ứ", "Ừ", "Ử", "Ữ", "Ự", "Ỳ", "Ỵ", "Ỷ", "Ỹ", "Ỻ", "Ỽ",
    "Ỿ", "ᾈ", "ᾉ", "ᾊ", "ᾋ", "ᾌ", "ᾍ", "ᾎ", "ᾏ", "ᾘ", "ᾙ", "ᾚ", "ᾛ", "ᾜ", "ᾝ", "ᾞ", "ᾟ", "ᾨ",
    "ᾩ", "ᾪ", "ᾫ", "ᾬ", "ᾭ", "ᾮ", "ᾯ", "Ᾰ", "Ᾱ", "ᾼ", "ῌ", "Ῐ", "Ῑ", "Ῠ", "Ῡ", "Ῥ", "ῼ", "Ↄ",
    "Ⓐ", "Ⓑ", "Ⓒ", "Ⓓ", "Ⓔ", "Ⓕ", "Ⓖ", "Ⓗ", "Ⓘ", "Ⓙ", "Ⓚ", "Ⓛ", "Ⓜ", "Ⓝ", "Ⓞ", "Ⓟ", "Ⓠ", "Ⓡ",
    "Ⓢ", "Ⓣ", "Ⓤ", "Ⓥ", "Ⓦ", "Ⓧ", "Ⓨ", "Ⓩ", "Ⲁ", "Ⲃ", "Ⲅ", "Ⲇ", "Ⲉ", "Ⲋ", "Ⲍ", "Ⲏ", "Ⲑ", "Ⲓ",
    "Ⲕ", "Ⲗ", "Ⲙ", "Ⲛ", "Ⲝ", "Ⲟ", "Ⲡ", "Ⲣ", "Ⲥ", "Ⲧ", "Ⲩ", "Ⲫ", "Ⲭ", "Ⲯ", "Ⲱ", "Ⲳ", "Ⲵ", "Ⲷ",
    "Ⲹ", "Ⲻ", "Ⲽ", "Ⲿ", "Ⳁ", "Ⳃ", "Ⳅ", "Ⳇ", "Ⳉ", "Ⳋ", "Ⳍ", "Ⳏ", "Ⳑ", "Ⳓ", "Ⳕ", "Ⳗ", "Ⳙ", "Ⳛ",
    "Ⳝ", "Ⳟ", "Ⳡ", "Ⳣ", "Ⳬ", "Ⳮ", "Ⳳ", "Ꚁ", "Ꚃ", "Ꚅ", "Ꚇ", "Ꚉ", "Ꚋ", "Ꚍ", "Ꚏ", "Ꚑ", "Ꚓ", "Ꚕ",
    "Ꚗ", "Ꚙ", "Ꚛ", "Ꞁ", "Ꞃ", "Ꞅ", "Ꞇ", "Ꞌ", "Ꞑ", "Ꞓ", "Ꞗ", "Ꞙ", "Ꞛ", "Ꞝ", "Ꞟ", "Ꞡ", "Ꞣ", "Ꞥ",
    "Ꞧ", "Ꞩ", "Ʞ", "Ʇ", "Ʝ", "Ꞵ", "Ꞷ", "Ꞹ", "Ꞻ", "Ꞽ", "Ꞿ", "Ꟁ", "Ꟃ", "Ꞔ", "Ʂ", "Ᶎ", "Ꟈ", "Ꟊ",
    "Ꟑ", "Ꟗ", "Ꟙ", "Ꟶ">>

LowerChars == <<
    "a", "b", "c", "d", "e", "f", "g", "h", "i", "j", "k", "l", "m", "n", "o", "p", "q", "r",
    "s", "t", "u", "v", "w", "x", "y", "z", "à", "á", "â", "ã", "ä", "å", "æ", "ç", "è", "é",
    "ê", "ë", "ì", "í", "î", "ï", "ð", "ñ", "ò", "ó", "ô", "õ", "ö", "ø", "ù", "ú", "û", "ü",
    "ý", "þ", "ƃ", "ƅ", "ƈ", "ƌ", "ǝ", "ƒ", "ƙ", "ơ", "ƣ", "ƥ", "ʀ", "ƨ", "ʃ", "ƭ", "ʈ", "ư",
    "ʊ", "ʋ", "ƴ", "ƶ", "ʒ", "ƹ", "ƽ", "ǆ", "ǆ", "ǉ", "ǉ", "ǌ", "ǌ", "ǎ", "ǐ", "ǒ", "ǔ", "ǖ",
    "ǘ", "ǚ", "ǜ", "ǟ", "ǡ", "ǣ", "ǥ", "ǧ", "ǩ", "ǫ", "ǭ", "ǯ", "ǳ", "ǳ", "ǵ", "ƕ", "ƿ", "ǹ",
    "ǻ", "ǽ", "ǿ", "ά", "έ", "ή", "ί", "ό", "ύ", "ώ", "α", "β", "γ", "δ", "ε", "ζ", "η", "θ",
    "ι", "κ", "λ", "μ", "ν", "ξ", "ο", "π", "ρ", "σ", "τ", "υ", "φ", "χ", "ψ", "ω", "ϊ", "ϋ",
    "ϗ", "ϙ", "ϛ", "ϝ", "ϟ", "ϡ", "ϣ", "ϥ", "ϧ", "ϩ", "ϫ", "ϭ", "ϯ", "θ", "ϸ", "ϲ", "ϻ", "ҁ",
    "ҋ", "ҍ", "ҏ", "ґ", "ғ", "ҕ", "җ", "ҙ", "қ", "ҝ", "ҟ", "ҡ", "ң", "ҥ", "ҧ", "ҩ", "ҫ", "ҭ",
    "ү", "ұ", "ҳ", "ҵ", "ҷ", "ҹ", "һ", "ҽ", "ҿ", "ӏ", "ӂ", "ӄ", "ӆ", "ӈ", "ӊ", "ӌ", "ӎ", "ӑ",
    "ӓ", "ӕ", "ӗ", "ә", "ӛ", "ӝ", "ӟ", "ӡ", "ӣ", "ӥ", "ӧ", "ө", "ӫ", "ӭ", "ӯ", "ӱ", "ӳ", "ӵ",
    "ӷ", "ӹ", "ӻ", "ӽ", "ӿ", "ꮀ", "ꮁ", "ꮂ", "ꮃ", "ꮄ", "ꮅ", "ꮆ", "ꮇ", "ꮈ", "ꮉ", "ꮊ", "ꮋ", "ꮌ",
    "ꮍ", "ꮎ", "ꮏ", "ꮐ", "ꮑ", "ꮒ", "ꮓ", "ꮔ", "ꮕ", "ꮖ", "ꮗ", "ꮘ", "ꮙ", "ꮚ", "ꮛ", "ꮜ", "ꮝ", "ꮞ",
    "ꮟ", "ꮠ", "ꮡ", "ꮢ", "ꮣ", "ꮤ", "ꮥ", "ꮦ", "ꮧ", "ꮨ", "ꮩ", "ꮪ", "ꮫ", "ꮬ", "ꮭ", "ꮮ", "ꮯ", "ꮰ",
    "ꮱ", "ꮲ", "ꮳ", "ꮴ", "ꮵ", "ꮶ", "ꮷ", "ꮸ", "ꮹ", "ꮺ", "ꮻ", "ꮼ", "ꮽ", "ꮾ", "ꮿ", "ᏸ", "ᏹ", "ᏺ",
    "ᏻ", "ᏼ", "ᏽ", "ა", "ბ", "გ", "დ", "ე", "ვ", "ზ", "თ", "ი", "კ", "ლ", "მ", "ნ", "ო", "პ",
    "ჟ", "რ", "ს", "ტ", "უ", "ფ", "ქ", "ღ", "ყ", "შ", "ჩ", "ც", "ძ", "წ", "ჭ", "ხ", "ჯ", "ჰ",
    "ჱ", "ჲ", "ჳ", "ჴ", "ჵ", "ჶ", "ჷ", "ჸ", "ჹ", "ჺ", "ჽ", "ჾ", "ჿ", "ẁ", "ẃ", "ẅ", "ẇ", "ẉ",
    "ẋ", "ẍ", "ẏ", "ẑ", "ẓ", "ẕ", "ß", "ạ", "ả", "ấ", "ầ", "ẩ", "ẫ", "ậ", "ắ", "ằ", "ẳ", "ẵ",
    "ặ", "ẹ", "ẻ", "ẽ", "ế", "ề", "ể", "ễ", "ệ", "ỉ", "ị", "ọ", "ỏ", "ố", "ồ", "ổ", "ỗ", "ộ",
    "ớ", "ờ", "ở", "ỡ", "ợ", "ụ", "ủ", "ứ", "ừ", "ử", "ữ", "ự", "ỳ", "ỵ", "ỷ", "ỹ", "ỻ", "ỽ",
    "ỿ", "ᾀ", "ᾁ", "ᾂ", "ᾃ", "ᾄ", "ᾅ", "ᾆ", "ᾇ", "ᾐ", "ᾑ", "ᾒ", "ᾓ", "ᾔ", "ᾕ", "ᾖ", "ᾗ", "ᾠ",
    "ᾡ", "ᾢ", "ᾣ", "ᾤ", "ᾥ", "ᾦ", "ᾧ", "ᾰ", "ᾱ", "ᾳ", "ῃ", "ῐ", "ῑ", "ῠ", "ῡ", "ῥ", "ῳ", "ↄ",
    "ⓐ", "ⓑ", "ⓒ", "ⓓ", "ⓔ", "ⓕ", "ⓖ", "ⓗ", "ⓘ", "ⓙ", "ⓚ", "ⓛ", "ⓜ", "ⓝ", "ⓞ", "ⓟ", "ⓠ", "ⓡ",
    "ⓢ", "ⓣ", "ⓤ", "ⓥ", "ⓦ", "ⓧ", "ⓨ", "ⓩ", "ⲁ", "ⲃ", "ⲅ", "ⲇ", "ⲉ", "ⲋ", "ⲍ", "ⲏ", "ⲑ", "ⲓ",
    "ⲕ", "ⲗ", "ⲙ", "ⲛ", "ⲝ", "ⲟ", "ⲡ", "ⲣ", "ⲥ", "ⲧ", "ⲩ", "ⲫ", "ⲭ", "ⲯ", "ⲱ", "ⲳ", "ⲵ", "ⲷ",
    "ⲹ", "ⲻ", "ⲽ", "ⲿ", "ⳁ", "ⳃ", "ⳅ", "ⳇ", "ⳉ", "ⳋ", "ⳍ", "ⳏ", "ⳑ", "ⳓ", "ⳕ", "ⳗ", "ⳙ", "ⳛ",
    "ⳝ", "ⳟ", "ⳡ", "ⳣ", "ⳬ", "ⳮ", "ⳳ", "ꚁ", "ꚃ", "ꚅ", "ꚇ", "ꚉ", "ꚋ", "ꚍ", "ꚏ", "ꚑ", "ꚓ", "ꚕ",
    "ꚗ", "ꚙ", "ꚛ", "ꞁ", "ꞃ", "ꞅ", "ꞇ", "ꞌ", "ꞑ", "ꞓ", "ꞗ", "ꞙ", "ꞛ", "ꞝ", "ꞟ", "ꞡ", "ꞣ", "ꞥ",
    "ꞧ", "ꞩ", "ʞ", "ʇ", "ʝ", "ꞵ", "ꞷ", "ꞹ", "ꞻ", "ꞽ", "ꞿ", "ꟁ", "ꟃ", "ꞔ", "ʂ", "ᶎ", "ꟈ", "ꟊ",
    "ꟑ", "ꟗ", "ꟙ", "ꟶ">>

UpperCase == {UpperChars[i] : i \in DOMAIN UpperChars}

LowerOf == [c \in UpperCase |-> LowerChars[CHOOSE i \in DOMAIN UpperChars : UpperChars[i] = c]]

\* the characters str.lower() changes into a character that cannot be written in a
\* string here: LowerOf has no value for them
LowerUnwritable == {
    "Ɓ", "Ɔ", "Ɖ", "Ɗ", "Ə", "Ɛ", "Ɠ", "Ɣ", "Ɩ", "Ɨ", "Ɯ", "Ɲ", "Ɵ", "Ͻ", "Ͼ", "Ͽ", "Ⴀ", "Ⴁ",
    "Ⴂ", "Ⴃ", "Ⴄ", "Ⴅ", "Ⴆ", "Ⴇ", "Ⴈ", "Ⴉ", "Ⴊ", "Ⴋ", "Ⴌ", "Ⴍ", "Ⴎ", "Ⴏ", "Ⴐ", "Ⴑ", "Ⴒ", "Ⴓ",
    "Ⴔ", "Ⴕ", "Ⴖ", "Ⴗ", "Ⴘ", "Ⴙ", "Ⴚ", "Ⴛ", "Ⴜ", "Ⴝ", "Ⴞ", "Ⴟ", "Ⴠ", "Ⴡ", "Ⴢ", "Ⴣ", "Ⴤ", "Ⴥ",
    "Ⴧ", "Ⴭ", "Ꭰ", "Ꭱ", "Ꭲ", "Ꭳ", "Ꭴ", "Ꭵ", "Ꭶ", "Ꭷ", "Ꭸ", "Ꭹ", "Ꭺ", "Ꭻ", "Ꭼ", "Ꭽ", "Ꭾ", "Ꭿ",
    "Ὰ", "Ά", "Ὲ", "Έ", "Ὴ", "Ή", "Ὶ", "Ί", "Ὺ", "Ύ", "Ὸ", "Ό", "Ὼ", "Ώ", "Ɥ", "Ɦ", "Ɜ", "Ɡ",
    "Ɬ", "Ɪ", "Ꭓ"}

LowerChar(c) ==
    IF c \in UpperCase THEN LowerOf[c]
    ELSE IF c \in LowerUnwritable THEN LowerOf[c]
    ELSE c

\* the characters str.lower() skips when it looks for the neighbours of a capital sigma
CaseIgnorable == {
    "'", ".", ":", "^", "¨", "­", "¯", "´", "·", "¸", "ʰ", "ʱ", "ʲ", "ʳ", "ʴ", "ʵ", "ʶ", "ʷ",
    "ʸ", "ʹ", "ʺ", "ʻ", "ʼ", "ʽ", "ʾ", "ʿ", "ˀ", "ˁ", "˂", "˃", "˄", "˅", "ˆ", "ˇ", "ˈ", "ˉ",
    "ˊ", "ˋ", "ˌ", "ˍ", "ˎ", "ˏ", "ː", "ˑ", "˒", "˓", "˔", "˕", "˖", "˗", "˘", "˙", "˚", "˛",
    "˜", "˝", "˞", "˟", "ˠ", "ˡ", "ˢ", "ˣ", "ˤ", "˥", "˦", "˧", "˨", "˩", "˪", "˫", "ˬ", "˭",
    "ˮ", "˯", "˰", "˱", "˲", "˳", "˴", "˵", "˶", "˷", "˸", "˹", "˺", "˻", "˼", "˽", "˾", "˿",
    "΄", "΅", "·", "҃", "҄", "҅", "҆", "҇", "҈", "҉", "֑", "֒", "֓", "֔", "֕", "֖", "֗", "֘",
    "֙", "֚", "֛", "֜", "֝", "֞", "֟", "֠", "֡", "֢", "֣", "֤", "֥", "֦", "֧", "֨", "֩", "֪",
    "֫", "֬", "֭", "֮", "֯", "ְ", "ֱ", "ֲ", "ֳ", "ִ", "ֵ", "ֶ", "ַ", "ָ", "ֹ", "ֺ", "ֻ", "ּ",
    "ֽ", "ֿ", "ׁ", "ׂ", "ׄ", "ׅ", "ׇ", "״", "ۖ", "ۗ", "ۘ", "ۙ", "ۚ", "ۛ", "ۜ", "۝", "۟", "۠",
    "ۡ", "ۢ", "ۣ", "ۤ", "ۥ", "ۦ", "ۧ", "ۨ", "۪", "۫", "۬", "ۭ", "ަ", "ާ", "ި", "ީ", "ު", "ޫ",
    "ެ", "ޭ", "ޮ", "ޯ", "ް", "߫", "߬", "߭", "߮", "߯", "߰", "߱", "߲", "߳", "ߴ", "ߵ", "ߺ", "߽",
    "࢈", "࢐", "࢑", "࢘", "࢙", "࢚", "࢛", "࢜", "࢝", "࢞", "࢟", "ࣉ", "࣊", "࣋", "࣌", "࣍", "࣎", "࣏",
    "࣐", "࣑", "࣒", "࣓", "ࣔ", "ࣕ", "ࣖ", "ࣗ", "ࣘ", "ࣙ", "ࣚ", "ࣛ", "ࣜ", "ࣝ", "ࣞ", "ࣟ", "࣠", "࣡",
    "࣢", "ࣣ", "ࣤ", "ࣥ", "ࣦ", "ࣧ", "ࣨ", "ࣩ", "࣪", "࣫", "࣬", "࣭", "࣮", "࣯", "ࣰ", "ࣱ", "ࣲ", "ࣳ",
    "ࣴ", "ࣵ", "ࣶ", "ࣷ", "ࣸ", "ࣹ", "ࣺ", "ࣻ", "ࣼ", "ࣽ", "ࣾ", "ࣿ", "ঁ", "়", "ু", "ূ", "ৃ", "ৄ",
    "্", "ৢ", "ৣ", "৾", "ઁ", "ં", "઼", "ુ", "ૂ", "ૃ", "ૄ", "ૅ", "ે", "ૈ", "્", "ૢ", "ૣ", "ૺ",
    "ૻ", "ૼ", "૽", "૾", "૿", "ஂ", "ீ", "்", "ಁ", "಼", "ಿ", "ೆ", "ೌ", "್", "ೢ", "ೣ", "ඁ", "්",
    "ි", "ී", "ු", "ූ", "ັ", "ິ", "ີ", "ຶ", "ື", "ຸ", "ູ", "຺", "ົ", "ຼ", "ໆ", "່", "້", "໊",
    "໋", "໌", "ໍ", "ྀ", "ཱྀ", "ྂ", "ྃ", "྄", "྆", "྇", "ྍ", "ྎ", "ྏ", "ྐ", "ྑ", "ྒ", "ྒྷ", "ྔ",
    "ྕ", "ྖ", "ྗ", "ྙ", "ྚ", "ྛ", "ྜ", "ྜྷ", "ྞ", "ྟ", "ྠ", "ྡ", "ྡྷ", "ྣ", "ྤ", "ྥ", "ྦ", "ྦྷ",
    "ྨ", "ྩ", "ྪ", "ྫ", "ྫྷ", "ྭ", "ྮ", "ྯ", "ྰ", "ྱ", "ྲ", "ླ", "ྴ", "ྵ", "ྶ", "ྷ", "ྸ", "ྐྵ",
    "ྺ", "ྻ", "ྼ", "࿆", "ႂ", "ႅ", "ႆ", "ႍ", "ႝ", "ჼ", "឴", "឵", "ិ", "ី", "ឹ", "ឺ", "ុ", "ូ",
    "ួ", "ំ", "៉", "៊", "់", "៌", "៍", "៎", "៏", "័", "៑", "្", "៓", "ៗ", "៝", "ᢅ", "ᢆ", "ᢩ",
    "ᪧ", "᪰", "᪱", "᪲", "᪳", "᪴", "᪵", "᪶", "᪷", "᪸", "᪹", "᪺", "᪻", "᪼", "᪽", "᪾", "ᪿ", "ᫀ",
    "᫁", "᫂", "᫃", "᫄", "᫅", "᫆", "᫇", "᫈", "᫉", "᫊", "᫋", "ᫌ", "ᫍ", "ᫎ", "ᮀ", "ᮁ", "ᮢ", "ᮣ",
    "ᮤ", "ᮥ", "ᮨ", "ᮩ", "᮫", "ᮬ", "ᮭ", "᯦", "ᯨ", "ᯩ", "ᯭ", "ᯯ", "ᯰ", "ᯱ", "᳐", "᳑", "᳒", "᳔",
    "᳕", "᳖", "᳗", "᳘", "᳙", "᳚", "᳛", "᳜", "᳝", "᳞", "᳟", "᳠", "᳢", "᳣", "᳤", "᳥", "᳦", "᳧",
    "᳨", "᳭", "᳴", "᳸", "᳹", "ᶛ", "ᶜ", "ᶝ", "ᶞ", "ᶟ", "ᶠ", "ᶡ", "ᶢ", "ᶣ", "ᶤ", "ᶥ", "ᶦ", "ᶧ",
    "ᶨ", "ᶩ", "ᶪ", "ᶫ", "ᶬ", "ᶭ", "ᶮ", "ᶯ", "ᶰ", "ᶱ", "ᶲ", "ᶳ", "ᶴ", "ᶵ", "ᶶ", "ᶷ", "ᶸ", "ᶹ",
    "ᶺ", "ᶻ", "ᶼ", "ᶽ", "ᶾ", "ᶿ", "᷀", "᷁", "᷂", "᷃", "᷄", "᷅", "᷆", "᷇", "᷈", "᷉", "᷊", "᷋",
    "᷌", "᷍", "᷎", "᷏", "᷐", "᷑", "᷒", "ᷓ", "ᷔ", "ᷕ", "ᷖ", "ᷗ", "ᷘ", "ᷙ", "ᷚ", "ᷛ", "ᷜ", "ᷝ",
    "ᷞ", "ᷟ", "ᷠ", "ᷡ", "ᷢ", "ᷣ", "ᷤ", "ᷥ", "ᷦ", "ᷧ", "ᷨ", "ᷩ", "ᷪ", "ᷫ", "ᷬ", "ᷭ", "ᷮ", "ᷯ",
    "ᷰ", "ᷱ", "ᷲ", "ᷳ", "ᷴ", "᷵", "᷶", "᷷", "᷸", "᷹", "᷺", "᷻", "᷼", "᷽", "᷾", "᷿", "᾽", "᾿",
    "῀", "῁", "῍", "῎", "῏", "῝", "῞", "῟", "῭", "΅", "`", "´", "῾", "ₐ", "ₑ", "ₒ", "ₓ", "ₔ",
    "ₕ", "ₖ", "ₗ", "ₘ", "ₙ", "ₚ", "ₛ", "ₜ", "⃐", "⃑", "⃒", "⃓", "⃔", "⃕", "⃖", "⃗", "⃘", "⃙",
    "⃚", "⃛", "⃜", "⃝", "⃞", "⃟", "⃠", "⃡", "⃢", "⃣", "⃤", "⃥", "⃦", "⃧", "⃨", "⃩", "⃪", "⃫",
    "⃬", "⃭", "⃮", "⃯", "⃰", "⳯", "⳰", "⳱", "ⷠ", "ⷡ", "ⷢ", "ⷣ", "ⷤ", "ⷥ", "ⷦ", "ⷧ", "ⷨ", "ⷩ",
    "ⷪ", "ⷫ", "ⷬ", "ⷭ", "ⷮ", "ⷯ", "ⷰ", "ⷱ", "ⷲ", "ⷳ", "ⷴ", "ⷵ", "ⷶ", "ⷷ", "ⷸ", "ⷹ", "ⷺ", "ⷻ",
    "ⷼ", "ⷽ", "ⷾ", "ⷿ", "゙", "゚", "゛", "゜", "ゝ", "ゞ", "ー", "ヽ", "ヾ", "ꓸ", "ꓹ", "ꓺ", "ꓻ", "ꓼ",
    "ꓽ", "ꚜ", "ꚝ", "ꚞ", "ꚟ", "꛰", "꛱", "ꞈ", "꞉", "꞊", "ꟲ", "ꟳ", "ꟴ", "ꟸ", "ꟹ", "꣄", "ꣅ", "꣠",
    "꣡", "꣢", "꣣", "꣤", "꣥", "꣦", "꣧", "꣨", "꣩", "꣪", "꣫", "꣬", "꣭", "꣮", "꣯", "꣰", "꣱", "ꣿ",
    "ꦀ", "ꦁ", "ꦂ", "꦳", "ꦶ", "ꦷ", "ꦸ", "ꦹ", "ꦼ", "ꦽ", "ꧏ", "ꧥ", "ꧦ", "ꪰ", "ꪲ", "ꪳ", "ꪴ", "ꪷ",
    "ꪸ", "ꪾ", "꪿", "꫁", "ꫝ", "ꫬ", "ꫭ", "ꫳ", "ꫴ", "꫶", "ꯥ", "ꯨ", "꯭", "﮲", "﮳", "﮴", "﮵", "﮶",
    "﮷", "﮸", "﮹", "﮺", "﮻", "﮼", "﮽", "﮾", "﮿", "﯀", "﯁", "﯂", "﻿", "ﾞ", "ﾟ", "￣", "￹", "￺",
    "￻"}

\* the cased characters that are not case-ignorable
Cased == {
    "A", "B", "C", "D", "E", "F", "G", "H", "I", "J", "K", "L", "M", "N", "O", "P", "Q", "R",
    "S", "T", "U", "V", "W", "X", "Y", "Z", "a", "b", "c", "d", "e", "f", "g", "h", "i", "j",
    "k", "l", "m", "n", "o", "p", "q", "r", "s", "t", "u", "v", "w", "x", "y", "z", "ª", "µ",
    "º", "À", "Á", "Â", "Ã", "Ä", "Å", "Æ", "Ç", "È", "É", "Ê", "Ë", "Ì", "Í", "Î", "Ï", "Ð",
    "Ñ", "Ò", "Ó", "Ô", "Õ", "Ö", "Ø", "Ù", "Ú", "Û", "Ü", "Ý", "Þ", "ß", "à", "á", "â", "ã",
    "ä", "å", "æ", "ç", "è", "é", "ê", "ë", "ì", "í", "î", "ï", "ð", "ñ", "ò", "ó", "ô", "õ",
    "ö", "ø", "ù", "ú", "û", "ü", "ý", "þ", "ÿ", "ƀ", "Ɓ", "Ƃ", "ƃ", "Ƅ", "ƅ", "Ɔ", "Ƈ", "ƈ",
    "Ɖ", "Ɗ", "Ƌ", "ƌ", "ƍ", "Ǝ", "Ə", "Ɛ", "Ƒ", "ƒ", "Ɠ", "Ɣ", "ƕ", "Ɩ", "Ɨ", "Ƙ", "ƙ", "ƚ",
    "ƛ", "Ɯ", "Ɲ", "ƞ", "Ɵ", "Ơ", "ơ", "Ƣ", "ƣ", "Ƥ", "ƥ", "Ʀ", "Ƨ", "ƨ", "Ʃ", "ƪ", "ƫ", "Ƭ",
    "ƭ", "Ʈ", "Ư", "ư", "Ʊ", "Ʋ", "Ƴ", "ƴ", "Ƶ", "ƶ", "Ʒ", "Ƹ", "ƹ", "ƺ", "Ƽ", "ƽ", "ƾ", "ƿ",
    "Ǆ", "ǅ", "ǆ", "Ǉ", "ǈ", "ǉ", "Ǌ", "ǋ", "ǌ", "Ǎ", "ǎ", "Ǐ", "ǐ", "Ǒ", "ǒ", "Ǔ", "ǔ", "Ǖ",
    "ǖ", "Ǘ", "ǘ", "Ǚ", "ǚ", "Ǜ", "ǜ", "ǝ", "Ǟ", "ǟ", "Ǡ", "ǡ", "Ǣ", "ǣ", "Ǥ", "ǥ", "Ǧ", "ǧ",
    "Ǩ", "ǩ", "Ǫ", "ǫ", "Ǭ", "ǭ", "Ǯ", "ǯ", "ǰ", "Ǳ", "ǲ", "ǳ", "Ǵ", "ǵ", "Ƕ", "Ƿ", "Ǹ", "ǹ",
    "Ǻ", "ǻ", "Ǽ", "ǽ", "Ǿ", "ǿ", "ʀ", "ʁ", "ʂ", "ʃ", "ʄ", "ʅ", "ʆ", "ʇ", "ʈ", "ʉ", "ʊ", "ʋ",
    "ʌ", "ʍ", "ʎ", "ʏ", "ʐ", "ʑ", "ʒ", "ʓ", "ʕ", "ʖ", "ʗ", "ʘ", "ʙ", "ʚ", "ʛ", "ʜ", "ʝ", "ʞ",
    "ʟ", "ʠ", "ʡ", "ʢ", "ʣ", "ʤ", "ʥ", "ʦ", "ʧ", "ʨ", "ʩ", "ʪ", "ʫ", "ʬ", "ʭ", "ʮ", "ʯ", "Ά",
    "Έ", "Ή", "Ί", "Ό", "Ύ", "Ώ", "ΐ", "Α", "Β", "Γ", "Δ", "Ε", "Ζ", "Η", "Θ", "Ι", "Κ", "Λ",
    "Μ", "Ν", "Ξ", "Ο", "Π", "Ρ", "Σ", "Τ", "Υ", "Φ", "Χ", "Ψ", "Ω", "Ϊ", "Ϋ", "ά", "έ", "ή",
    "ί", "ΰ", "α", "β", "γ", "δ", "ε", "ζ", "η", "θ", "ι", "κ", "λ", "μ", "ν", "ξ", "ο", "π",
    "ρ", "ς", "σ", "τ", "υ", "φ", "χ", "ψ", "ω", "ϊ", "ϋ", "ό", "ύ", "ώ", "Ϗ", "ϐ", "ϑ", "ϒ",
    "ϓ", "ϔ", "ϕ", "ϖ", "ϗ", "Ϙ", "ϙ", "Ϛ", "ϛ", "Ϝ", "ϝ", "Ϟ", "ϟ", "Ϡ", "ϡ", "Ϣ", "ϣ", "Ϥ",
    "ϥ", "Ϧ", "ϧ", "Ϩ", "ϩ", "Ϫ", "ϫ", "Ϭ", "ϭ", "Ϯ", "ϯ", "ϰ", "ϱ", "ϲ", "ϳ", "ϴ", "ϵ", "Ϸ",
    "ϸ", "Ϲ", "Ϻ", "ϻ", "ϼ", "Ͻ", "Ͼ", "Ͽ", "Ҁ", "ҁ", "Ҋ", "ҋ", "Ҍ", "ҍ", "Ҏ", "ҏ", "Ґ", "ґ",
    "Ғ", "ғ", "Ҕ", "ҕ", "Җ", "җ", "Ҙ", "ҙ", "Қ", "қ", "Ҝ", "ҝ", "Ҟ", "ҟ", "Ҡ", "ҡ", "Ң", "ң",
    "Ҥ", "ҥ", "Ҧ", "ҧ", "Ҩ", "ҩ", "Ҫ", "ҫ", "Ҭ", "ҭ", "Ү", "ү", "Ұ", "ұ", "Ҳ", "ҳ", "Ҵ", "ҵ",
    "Ҷ", "ҷ", "Ҹ", "ҹ", "Һ", "һ", "Ҽ", "ҽ", "Ҿ", "ҿ", "Ӏ", "Ӂ", "ӂ", "Ӄ", "ӄ", "Ӆ", "ӆ", "Ӈ",
    "ӈ", "Ӊ", "ӊ", "Ӌ", "ӌ", "Ӎ", "ӎ", "ӏ", "Ӑ", "ӑ", "Ӓ", "ӓ", "Ӕ", "ӕ", "Ӗ", "ӗ", "Ә", "ә",
    "Ӛ", "ӛ", "Ӝ", "ӝ", "Ӟ", "ӟ", "Ӡ", "ӡ", "Ӣ", "ӣ", "Ӥ", "ӥ", "Ӧ", "ӧ", "Ө", "ө", "Ӫ", "ӫ",
    "Ӭ", "ӭ", "Ӯ", "ӯ", "Ӱ", "ӱ", "Ӳ", "ӳ", "Ӵ", "ӵ", "Ӷ", "ӷ", "Ӹ", "ӹ", "Ӻ", "ӻ", "Ӽ", "ӽ",
    "Ӿ", "ӿ", "ր", "ց", "ւ", "փ", "ք", "օ", "ֆ", "և", "ֈ", "Ⴀ", "Ⴁ", "Ⴂ", "Ⴃ", "Ⴄ", "Ⴅ", "Ⴆ",
    "Ⴇ", "Ⴈ", "Ⴉ", "Ⴊ", "Ⴋ", "Ⴌ", "Ⴍ", "Ⴎ", "Ⴏ", "Ⴐ", "Ⴑ", "Ⴒ", "Ⴓ", "Ⴔ", "Ⴕ", "Ⴖ", "Ⴗ", "Ⴘ",
    "Ⴙ", "Ⴚ", "Ⴛ", "Ⴜ", "Ⴝ", "Ⴞ", "Ⴟ", "Ⴠ", "Ⴡ", "Ⴢ", "Ⴣ", "Ⴤ", "Ⴥ", "Ⴧ", "Ⴭ", "ა", "ბ", "გ",
    "დ", "ე", "ვ", "ზ", "თ", "ი", "კ", "ლ", "მ", "ნ", "ო", "პ", "ჟ", "რ", "ს", "ტ", "უ", "ფ",
    "ქ", "ღ", "ყ", "შ", "ჩ", "ც", "ძ", "წ", "ჭ", "ხ", "ჯ", "ჰ", "ჱ", "ჲ", "ჳ", "ჴ", "ჵ", "ჶ",
    "ჷ", "ჸ", "ჹ", "ჺ", "ჽ", "ჾ", "ჿ", "Ꭰ", "Ꭱ", "Ꭲ", "Ꭳ", "Ꭴ", "Ꭵ", "Ꭶ", "Ꭷ", "Ꭸ", "Ꭹ", "Ꭺ",
    "Ꭻ", "Ꭼ", "Ꭽ", "Ꭾ", "Ꭿ", "Ꮀ", "Ꮁ", "Ꮂ", "Ꮃ", "Ꮄ", "Ꮅ", "Ꮆ", "Ꮇ", "Ꮈ", "Ꮉ", "Ꮊ", "Ꮋ", "Ꮌ",
    "Ꮍ", "Ꮎ", "Ꮏ", "Ꮐ", "Ꮑ", "Ꮒ", "Ꮓ", "Ꮔ", "Ꮕ", "Ꮖ", "Ꮗ", "Ꮘ", "Ꮙ", "Ꮚ", "Ꮛ", "Ꮜ", "Ꮝ", "Ꮞ",
    "Ꮟ", "Ꮠ", "Ꮡ", "Ꮢ", "Ꮣ", "Ꮤ", "Ꮥ", "Ꮦ", "Ꮧ", "Ꮨ", "Ꮩ", "Ꮪ", "Ꮫ", "Ꮬ", "Ꮭ", "Ꮮ", "Ꮯ", "Ꮰ",
    "Ꮱ", "Ꮲ", "Ꮳ", "Ꮴ", "Ꮵ", "Ꮶ", "Ꮷ", "Ꮸ", "Ꮹ", "Ꮺ", "Ꮻ", "Ꮼ", "Ꮽ", "Ꮾ", "Ꮿ", "Ᏸ", "Ᏹ", "Ᏺ",
    "Ᏻ", "Ᏼ", "Ᏽ", "ᏸ", "ᏹ", "ᏺ", "ᏻ", "ᏼ", "ᏽ", "ᲀ", "ᲁ", "ᲂ", "ᲃ", "ᲄ", "ᲅ", "ᲆ", "ᲇ", "ᲈ",
    "Ა", "Ბ", "Გ", "Დ", "Ე", "Ვ", "Ზ", "Თ", "Ი", "Კ", "Ლ", "Მ", "Ნ", "Ო", "Პ", "Ჟ", "Რ", "Ს",
    "Ტ", "Უ", "Ფ", "Ქ", "Ღ", "Ყ", "Შ", "Ჩ", "Ც", "Ძ", "Წ", "Ჭ", "Ხ", "Ჯ", "Ჰ", "Ჱ", "Ჲ", "Ჳ",
    "Ჴ", "Ჵ", "Ჶ", "Ჷ", "Ჸ", "Ჹ", "Ჺ", "Ჽ", "Ჾ", "Ჿ", "ᶀ", "ᶁ", "ᶂ", "ᶃ", "ᶄ", "ᶅ", "ᶆ", "ᶇ",
    "ᶈ", "ᶉ", "ᶊ", "ᶋ", "ᶌ", "ᶍ", "ᶎ", "ᶏ", "ᶐ", "ᶑ", "ᶒ", "ᶓ", "ᶔ", "ᶕ", "ᶖ", "ᶗ", "ᶘ", "ᶙ",
    "ᶚ", "Ẁ", "ẁ", "Ẃ", "ẃ", "Ẅ", "ẅ", "Ẇ", "ẇ", "Ẉ", "ẉ", "Ẋ", "ẋ", "Ẍ", "ẍ", "Ẏ", "ẏ", "Ẑ",
    "ẑ", "Ẓ", "ẓ", "Ẕ", "ẕ", "ẖ", "ẗ", "ẘ", "ẙ", "ẚ", "ẛ", "ẜ", "ẝ", "ẞ", "ẟ", "Ạ", "ạ", "Ả",
    "ả", "Ấ", "ấ", "Ầ", "ầ", "Ẩ", "ẩ", "Ẫ", "ẫ", "Ậ", "ậ", "Ắ", "ắ", "Ằ", "ằ", "Ẳ", "ẳ", "Ẵ",
    "ẵ", "Ặ", "ặ", "Ẹ", "ẹ", "Ẻ", "ẻ", "Ẽ", "ẽ", "Ế", "ế", "Ề", "ề", "Ể", "ể", "Ễ", "ễ", "Ệ",
    "ệ", "Ỉ", "ỉ", "Ị", "ị", "Ọ", "ọ", "Ỏ", "ỏ", "Ố", "ố", "Ồ", "ồ", "Ổ", "ổ", "Ỗ", "ỗ", "Ộ",
    "ộ", "Ớ", "ớ", "Ờ", "ờ", "Ở", "ở", "Ỡ", "ỡ", "Ợ", "ợ", "Ụ", "ụ", "Ủ", "ủ", "Ứ", "ứ", "Ừ",
    "ừ", "Ử", "ử", "Ữ", "ữ", "Ự", "ự", "Ỳ", "ỳ", "Ỵ", "ỵ", "Ỷ", "ỷ", "Ỹ", "ỹ", "Ỻ", "ỻ", "Ỽ",
    "ỽ", "Ỿ", "ỿ", "ᾀ", "ᾁ", "ᾂ", "ᾃ", "ᾄ", "ᾅ", "ᾆ", "ᾇ", "ᾈ", "ᾉ", "ᾊ", "ᾋ", "ᾌ", "ᾍ", "ᾎ",
    "ᾏ", "ᾐ", "ᾑ", "ᾒ", "ᾓ", "ᾔ", "ᾕ", "ᾖ", "ᾗ", "ᾘ", "ᾙ", "ᾚ", "ᾛ", "ᾜ", "ᾝ", "ᾞ", "ᾟ", "ᾠ",
    "ᾡ", "ᾢ", "ᾣ", "ᾤ", "ᾥ", "ᾦ", "ᾧ", "ᾨ", "ᾩ", "ᾪ", "ᾫ", "ᾬ", "ᾭ", "ᾮ", "ᾯ", "ᾰ", "ᾱ", "ᾲ",
    "ᾳ", "ᾴ", "ᾶ", "ᾷ", "Ᾰ", "Ᾱ", "Ὰ", "Ά", "ᾼ", "ι", "ῂ", "ῃ", "ῄ", "ῆ", "ῇ", "Ὲ", "Έ", "Ὴ",
    "Ή", "ῌ", "ῐ", "ῑ", "ῒ", "ΐ", "ῖ", "ῗ", "Ῐ", "Ῑ", "Ὶ", "Ί", "ῠ", "ῡ", "ῢ", "ΰ", "ῤ", "ῥ",
    "ῦ", "ῧ", "Ῠ", "Ῡ", "Ὺ", "Ύ", "Ῥ", "ῲ", "ῳ", "ῴ", "ῶ", "ῷ", "Ὸ", "Ό", "Ὼ", "Ώ", "ῼ", "Ↄ",
    "ↄ", "Ⓐ", "Ⓑ", "Ⓒ", "Ⓓ", "Ⓔ", "Ⓕ", "Ⓖ", "Ⓗ", "Ⓘ", "Ⓙ", "Ⓚ", "Ⓛ", "Ⓜ", "Ⓝ", "Ⓞ", "Ⓟ", "Ⓠ",
    "Ⓡ", "Ⓢ", "Ⓣ", "Ⓤ", "Ⓥ", "Ⓦ", "Ⓧ", "Ⓨ", "Ⓩ", "ⓐ", "ⓑ", "ⓒ", "ⓓ", "ⓔ", "ⓕ", "ⓖ", "ⓗ", "ⓘ",
    "ⓙ", "ⓚ", "ⓛ", "ⓜ", "ⓝ", "ⓞ", "ⓟ", "ⓠ", "ⓡ", "ⓢ", "ⓣ", "ⓤ", "ⓥ", "ⓦ", "ⓧ", "ⓨ", "ⓩ", "Ⲁ",
    "ⲁ", "Ⲃ", "ⲃ", "Ⲅ", "ⲅ", "Ⲇ", "ⲇ", "Ⲉ", "ⲉ", "Ⲋ", "ⲋ", "Ⲍ", "ⲍ", "Ⲏ", "ⲏ", "Ⲑ", "ⲑ", "Ⲓ",
    "ⲓ", "Ⲕ", "ⲕ", "Ⲗ", "ⲗ", "Ⲙ", "ⲙ", "Ⲛ", "ⲛ", "Ⲝ", "ⲝ", "Ⲟ", "ⲟ", "Ⲡ", "ⲡ", "Ⲣ", "ⲣ", "Ⲥ",
    "ⲥ", "Ⲧ", "ⲧ", "Ⲩ", "ⲩ", "Ⲫ", "ⲫ", "Ⲭ", "ⲭ", "Ⲯ", "ⲯ", "Ⲱ", "ⲱ", "Ⲳ", "ⲳ", "Ⲵ", "ⲵ", "Ⲷ",
    "ⲷ", "Ⲹ", "ⲹ", "Ⲻ", "ⲻ", "Ⲽ", "ⲽ", "Ⲿ", "ⲿ", "Ⳁ", "ⳁ", "Ⳃ", "ⳃ", "Ⳅ", "ⳅ", "Ⳇ", "ⳇ", "Ⳉ",
    "ⳉ", "Ⳋ", "ⳋ", "Ⳍ", "ⳍ", "Ⳏ", "ⳏ", "Ⳑ", "ⳑ", "Ⳓ", "ⳓ", "Ⳕ", "ⳕ", "Ⳗ", "ⳗ", "Ⳙ", "ⳙ", "Ⳛ",
    "ⳛ", "Ⳝ", "ⳝ", "Ⳟ", "ⳟ", "Ⳡ", "ⳡ", "Ⳣ", "ⳣ", "ⳤ", "Ⳬ", "ⳬ", "Ⳮ", "ⳮ", "Ⳳ", "ⳳ", "Ꚁ", "ꚁ",
    "Ꚃ", "ꚃ", "Ꚅ", "ꚅ", "Ꚇ", "ꚇ", "Ꚉ", "ꚉ", "Ꚋ", "ꚋ", "Ꚍ", "ꚍ", "Ꚏ", "ꚏ", "Ꚑ", "ꚑ", "Ꚓ", "ꚓ",
    "Ꚕ", "ꚕ", "Ꚗ", "ꚗ", "Ꚙ", "ꚙ", "Ꚛ", "ꚛ", "Ꞁ", "ꞁ", "Ꞃ", "ꞃ", "Ꞅ", "ꞅ", "Ꞇ", "ꞇ", "Ꞌ", "ꞌ",
    "Ɥ", "ꞎ", "Ꞑ", "ꞑ", "Ꞓ", "ꞓ", "ꞔ", "ꞕ", "Ꞗ", "ꞗ", "Ꞙ", "ꞙ", "Ꞛ", "ꞛ", "Ꞝ", "ꞝ", "Ꞟ", "ꞟ",
    "Ꞡ", "ꞡ", "Ꞣ", "ꞣ", "Ꞥ", "ꞥ", "Ꞧ", "ꞧ", "Ꞩ", "ꞩ", "Ɦ", "Ɜ", "Ɡ", "Ɬ", "Ɪ", "ꞯ", "Ʞ", "Ʇ",
    "Ʝ", "Ꭓ", "Ꞵ", "ꞵ", "Ꞷ", "ꞷ", "Ꞹ", "ꞹ", "Ꞻ", "ꞻ", "Ꞽ", "ꞽ", "Ꞿ", "ꞿ", "Ꟁ", "ꟁ", "Ꟃ", "ꟃ",
    "Ꞔ", "Ʂ", "Ᶎ", "Ꟈ", "ꟈ", "Ꟊ", "ꟊ", "Ꟑ", "ꟑ", "ꟓ", "ꟕ", "Ꟗ", "ꟗ", "Ꟙ", "ꟙ", "Ꟶ", "ꟶ", "ꟺ",
    "ꮀ", "ꮁ", "ꮂ", "ꮃ", "ꮄ", "ꮅ", "ꮆ", "ꮇ", "ꮈ", "ꮉ", "ꮊ", "ꮋ", "ꮌ", "ꮍ", "ꮎ", "ꮏ", "ꮐ", "ꮑ",
    "ꮒ", "ꮓ", "ꮔ", "ꮕ", "ꮖ", "ꮗ", "ꮘ", "ꮙ", "ꮚ", "ꮛ", "ꮜ", "ꮝ", "ꮞ", "ꮟ", "ꮠ", "ꮡ", "ꮢ", "ꮣ",
    "ꮤ", "ꮥ", "ꮦ", "ꮧ", "ꮨ", "ꮩ", "ꮪ", "ꮫ", "ꮬ", "ꮭ", "ꮮ", "ꮯ", "ꮰ", "ꮱ", "ꮲ", "ꮳ", "ꮴ", "ꮵ",
    "ꮶ", "ꮷ", "ꮸ", "ꮹ", "ꮺ", "ꮻ", "ꮼ", "ꮽ", "ꮾ", "ꮿ"}

\* str.lower(): character by character, except that a capital sigma is written as the
\* final sigma when the nearest character before it that is not case-ignorable is cased
\* and the nearest one after it, if there is one, is not
Lower(s) ==
    LET FinalSigma(i) ==
            LET before == {j \in 1..(i - 1) : s[j] \notin CaseIgnorable}
                after == {j \in (i + 1)..Len(s) : s[j] \notin CaseIgnorable}
            IN /\ before # {}
               /\ s[CHOOSE j \in before : \A k \in before : k <= j] \in Cased
               /\ \/ after = {}
                  \/ s[CHOOSE j \in after : \A k \in after : j <= k] \notin Cased
    IN [i \in 1..Len(s) |-> IF s[i] = "Σ" /\ FinalSigma(i) THEN "ς" ELSE LowerChar(s[i])]

\* s[a:b] of Python with 0-based a, b already clipped to 0..len(s)
Slice(s, a, b) == IF b <= a THEN <<>> ELSE SubSeq(s, a + 1, b)

\* the characters of s that satisfy keep, in order
RECURSIVE FilterChars(_, _)
FilterChars(s, drop) ==
    IF s = <<>> THEN <<>>
    ELSE IF Head(s) \in drop THEN FilterChars(Tail(s), drop)
    ELSE <<Head(s)>> \o FilterChars(Tail(s), drop)

RECURSIVE LStrip(_)
LStrip(s) == IF s # <<>> /\ Head(s) \in Whitespace THEN LStrip(Tail(s)) ELSE s

RECURSIVE RStrip(_)
RStrip(s) ==
    IF s # <<>> /\ s[Len(s)] \in Whitespace THEN RStrip(SubSeq(s, 1, Len(s) - 1)) ELSE s

\* str.strip()
Strip(s) == RStrip(LStrip(s))

\* str.replace(old, new) for one-character old and new
ReplaceChar(s, old, new) == [i \in 1..Len(s) |-> IF s[i] = old THEN new ELSE s[i]]

\* str.split(): the maximal runs of non-whitespace characters
RECURSIVE SplitWs(_, _)
SplitWs(s, cur) ==
    IF s = <<>> THEN (IF cur = <<>> THEN <<>> ELSE <<cur>>)
    ELSE IF Head(s) \in Whitespace
         THEN (IF cur = <<>> THEN <<>> ELSE <<cur>>) \o SplitWs(Tail(s), <<>>)
         ELSE SplitWs(Tail(s), Append(cur, Head(s)))

\* does pat (already lower-case) occur in s at 1-based position i, ignoring case
MatchesAtCI(s, pat, i) ==
    /\ i >= 1
    /\ i + Len(pat) - 1 <= Len(s)
    /\ \A k \in 1..Len(pat) : LowerChar(s[i + k - 1]) = pat[k]

\* the 1-based positions at or after from where pat occurs, ignoring case
OccurrencesCI(s, pat, from) == {i \in from..Len(s) : MatchesAtCI(s, pat, i)}

Min(S) == CHOOSE x \in S : \A y \in S : x <= y

\* the first 1-based position at or after i of a character of set cs, 0 when none
FirstIn(s, cs, i) ==
    LET hits == {j \in i..Len(s) : s[j] \in cs}
    IN IF hits = {} THEN 0 ELSE Min(hits)

\* the first 1-based position at or after i of a character outside cs, Len(s)+1 when none
FirstNotIn(s, cs, i) ==
    LET hits == {j \in i..Len(s) : s[j] \notin cs}
    IN IF hits = {} THEN Len(s) + 1 ELSE Min(hits)

(***************************************************************************)
(* ImagesDescriber.parse_response: the regular expressions of the          *)
(* orchestrator's own parser.                                              *)
(***************************************************************************)
KeywordsMarker == <<"*", "*", "k", "e", "y", "w", "o", "r", "d", "s", ":", "*", "*">>

NoTitle == <<"N", "o", " ", "T", "i", "t", "l", "e">>
NoDescription == <<"N", "o", " ", "D", "e", "s", "c", "r", "i", "p", "t", "i", "o", "n">>

\* The tail  ["\n\s]*(.*?)(?=["\n])  tried at 1-based position q: the greedy skip
\* backs off one character at a time, the lazy group stops at the first quote or
\* newline.  [found |-> FALSE] when no back-off lets the lookahead succeed.
LineGroupAt(s, q) ==
    LET skipEnd == FirstNotIn(s, Whitespace \cup {"\""}, q)
        stop == FirstIn(s, {"\"", "\n"}, skipEnd)
        inSkip == {j \in q..(skipEnd - 1) : s[j] \in {"\"", "\n"}}
    IN IF stop # 0 THEN [found |-> TRUE, group |-> Slice(s, skipEnd - 1, stop - 1)]
       ELSE IF inSkip # {} THEN [found |-> TRUE, group |-> <<>>]
       ELSE [found |-> FALSE, group |-> <<>>]

\* re.search(marker + tail): the leftmost marker position whose tail matches
LineSearch(s, marker) ==
    LET ok == {p \in OccurrencesCI(s, marker, 1) : LineGroupAt(s, p + Len(marker)).found}
    IN IF ok = {} THEN [found |-> FALSE, group |-> <<>>]
       ELSE LineGroupAt(s, Min(ok) + Len(marker))

\* title_match.group(1).strip().replace(":", "")
CleanLine(g) == FilterChars(Strip(g), {":"})

\* re.sub(r'\d+\.?', '', text): every run of digits goes, with one dot after it
RECURSIVE DropNumbering(_)
DropNumbering(s) ==
    IF s = <<>> THEN <<>>
    ELSE IF Head(s) \in UnicodeDigits
         THEN LET e == FirstNotIn(s, UnicodeDigits, 1)
                  e2 == IF e <= Len(s) /\ s[e] = "." THEN e + 1 ELSE e
              IN DropNumbering(Slice(s, e2 - 1, Len(s)))
         ELSE <<Head(s)>> \o DropNumbering(Tail(s))

\* \*\*Keywords:\*\*[\s\n]*([^\*]*) at the first marker, then the clean-up of line 158
KeywordsGroup(s) ==
    LET p == Min(OccurrencesCI(s, KeywordsMarker, 1))
        a == FirstNotIn(s, Whitespace, p + Len(KeywordsMarker))
        b == FirstIn(s, {"*"}, a)
    IN Slice(s, a - 1, IF b = 0 THEN Len(s) ELSE b - 1)

\* keywords are a list when the marker is found and the str "No Keywords" otherwise
DescriberKeywords(content) ==
    IF OccurrencesCI(content, KeywordsMarker, 1) # {}
    THEN [list |-> TRUE,
          toks |-> SplitWs(Lower(ReplaceChar(DropNumbering(Strip(KeywordsGroup(content))),
                                             ",", " ")), <<>>)]
    ELSE [list |-> FALSE, toks |-> <<<<"N", "o", " ", "K", "e", "y", "w", "o", "r", "d", "s">>>>]

DescriberParse(content) ==
    LET t == LineSearch(content, <<"*", "*", "t", "i", "t", "l", "e", ":", "*", "*">>)
        d == LineSearch(content, <<"*", "*", "d", "e", "s", "c", "r", "i", "p", "t", "i", "o", "n", ":", "*", "*">>)
    IN [title |-> IF t.found THEN CleanLine(t.group) ELSE NoTitle,
        description |-> IF d.found THEN CleanLine(d.group) ELSE NoDescription,
        keywords |-> DescriberKeywords(content)]

(***************************************************************************)
(* parse_response of src/src/response_parser.py: the marker scan.          *)
(* src/src/services/response_parser.py holds the same scan at its lines    *)
(* 36-81, behind a call of the generator that raises (ServicesParseCall).  *)
(***************************************************************************)
\* string.punctuation (without the backquote, which no text of the model holds)
Punctuation == {"!", "\"", "#", "$", "%", "&", "'", "(", ")", "*", "+", ",", "-", ".", "/",
                ":", ";", "<", "=", ">", "?", "@", "[", "\\", "]", "^", "_", "{", "|",
                "}", "~"}

\* str.find(pat) on the lower-cased content: 0-based, -1 when absent
Find(s, pat) ==
    LET occ == OccurrencesCI(s, pat, 1)
    IN IF occ = {} THEN -1 ELSE Min(occ) - 1

\* str.translate(translation_table): punctuation and digits are deleted
Translate(s) == FilterChars(s, Punctuation \cup Digits)

\* re.split on runs of commas and whitespace, with the empty pieces dropped
SplitKeywords(s) == SplitWs(ReplaceChar(s, ",", " "), <<>>)

MarkerParse(content) ==
    LET title_index == Find(content, <<"t", "i", "t", "l", "e">>)
        description_index == Find(content, <<"d", "e", "s", "c", "r", "i", "p", "t", "i", "o", "n">>)
        keywords_index == Find(content, <<"k", "e", "y", "w", "o", "r", "d", "s">>)
        title_end == IF description_index > title_index THEN description_index
                     ELSE IF keywords_index > title_index THEN keywords_index
                     ELSE Len(content)
        description_end == IF keywords_index > description_index THEN keywords_index
                           ELSE Len(content)
    IN [title |-> IF title_index # -1
                  THEN Strip(Translate(Slice(content, title_index + 5, title_end)))
                  ELSE NoTitle,
        description |-> IF description_index # -1
                        THEN Strip(Translate(Slice(content, description_index + 11,
                                                   description_end)))
                        ELSE NoDescription,
        keywords |-> [list |-> TRUE,
                      toks |-> IF keywords_index # -1
                               THEN SplitKeywords(Lower(Translate(
                                        Slice(content, keywords_index + 8, Len(content)))))
                               ELSE <<>>]]

(***************************************************************************)
(* File names, paths and the file system.                                  *)
(***************************************************************************)
\* A file name is its text, a sequence of characters.
A_JPG == <<"a", ".", "j", "p", "g">>              \* a valid JPEG without an IPTC block
E_JPEG == <<"e", ".", "j", "p", "e", "g">>        \* a valid JPEG that carries a caption
C_JPG == <<"c", ".", "j", "p", "g">>              \* corrupt bytes under a .jpg extension
D_PNG == <<"d", ".", "P", "N", "G">>              \* a valid PNG, named d.PNG
W_WEBP == <<"w", ".", "w", "e", "b", "p">>        \* a valid WebP
B_TXT == <<"b", ".", "t", "x", "t">>              \* not an image
H_TXT == <<".", "h", ".", "t", "x", "t">>         \* a hidden file, .h.txt

\* os.path.splitext(name) for a name without separators: the extension starts at the
\* last dot, unless only dots come before that dot
SplitExt(n) ==
    LET dots == {i \in 1..Len(n) : n[i] = "." /\ \E j \in 1..(i - 1) : n[j] # "."}
        d == CHOOSE i \in dots : \A j \in dots : j <= i
    IN IF dots = {} THEN [base_name |-> n, ext |-> <<>>]
       ELSE [base_name |-> SubSeq(n, 1, d - 1), ext |-> SubSeq(n, d, Len(n))]

\* str(counter)
RECURSIVE Decimal(_)
Decimal(k) ==
    LET digit == <<"0", "1", "2", "3", "4", "5", "6", "7", "8", "9">>[(k % 10) + 1]
    IN IF k < 10 THEN <<digit>> ELSE Append(Decimal(k \div 10), digit)

\* the names a listing or an item list can hold
Universe == {A_JPG, E_JPEG, C_JPG, D_PNG, W_WEBP, B_TXT}

ImageExtensions ==
    {<<".", "j", "p", "g">>, <<".", "j", "p", "e", "g">>, <<".", "p", "n", "g">>,
     <<".", "g", "i", "f">>, <<".", "b", "m", "p">>, <<".", "w", "e", "b", "p">>,
     <<".", "t", "i", "f", "f">>, <<".", "i", "c", "o">>, <<".", "s", "v", "g">>}

\* image_name.lower().endswith((...))
HasImageExtension(n) ==
    LET EndsWith(s, suffix) ==
            /\ Len(suffix) <= Len(s)
            /\ SubSeq(s, Len(s) - Len(suffix) + 1, Len(s)) = suffix
        lower == Lower(n)
    IN \E e \in ImageExtensions : EndsWith(lower, e)

EmptyIptc == [present |-> FALSE, title |-> <<>>, description |-> <<>>,
              keywords |-> <<>>, byline |-> <<>>]

OldCaption == [present |-> TRUE, title |-> <<>>, description |-> <<"O", "l", "d">>,
               keywords |-> <<>>, byline |-> <<>>]

\* what a file holds: its container format, its pixel data, its IPTC block, its CSV rows
File(fmt, pix, iptc) == [fmt |-> fmt, pix |-> pix, iptc |-> iptc, rows |-> <<>>]

Absent == File("absent", "", EmptyIptc)

FormatOf(n) ==
    CASE n \in {A_JPG, E_JPEG} -> "jpeg"
      [] n = C_JPG -> "garbage"
      [] n = D_PNG -> "png"
      [] n = W_WEBP -> "webp"
      [] OTHER -> "text"

Original(n) == File(FormatOf(n), SplitExt(n).base_name, IF n = E_JPEG THEN OldCaption ELSE EmptyIptc)
Older(n) == File(FormatOf(n), "old", EmptyIptc)

Path(dir, n) == [dir |-> dir, name |-> n]

SrcDir == <<"src">>
TmpDir == <<"tmp">>

\* os.path.exists / os.path.isfile on the paths of the model (all of them files)
Exists(f, p) == p \in DOMAIN f
FileAt(f, p) == IF p \in DOMAIN f THEN f[p] ELSE Absent

WriteFile(f, p, c) == (p :> c) @@ f
RemoveFile(f, p) == [q \in (DOMAIN f) \ {p} |-> f[q]]

\* a copy that takes the source away
CopyFileMoving(f, from, to) == IF from = to THEN f ELSE RemoveFile(WriteFile(f, to, f[from]), from)

\* shutil.copyfile(src, dst)
CopyFile(f, from, to) == WriteFile(f, to, f[from])

\* a move that loses the file: the source is removed and nothing is written
MoveFileLosing(f, from, to) == IF from = to THEN f ELSE RemoveFile(f, from)

\* shutil.move(src, dst) onto a file path: dst holds what src held, src is gone
MoveFile(f, from, to) == IF from = to THEN f ELSE RemoveFile(WriteFile(f, to, f[from]), from)

\* filename + '~'
BackupPath(p) == [p EXCEPT !.name = Append(@, "~")]

\* f"{base_name}_({counter}){ext}" with base_name, ext = os.path.splitext(image_name)
Numbered(n, counter) ==
    SplitExt(n).base_name \o <<"_", "(">> \o Decimal(counter) \o <<")">> \o SplitExt(n).ext

\* the loop left out: the file is moved under its own name
FreeNameUnchecked(f, dir, n, file_to_move, counter) == file_to_move

\* the while loop of the quarantine: the first of name, name_(1), name_(2), ... that is free
RECURSIVE FreeName(_, _, _, _, _)
FreeName(f, dir, n, file_to_move, counter) ==
    IF ~Exists(f, Path(dir, file_to_move)) THEN file_to_move
    ELSE FreeName(f, dir, n, Numbered(n, counter), counter + 1)

\* no subfolder: the file is renamed inside the directory it is in
SameFolder(dir) == dir

\* os.path.join(path, 'Not_Images')
NotImagesOf(dir) == Append(dir, "Not_Images")

\* the non-image branch up to shutil.move: the path the file is moved to
QuarantineTarget(f, dir, n) == Path(NotImagesOf(dir), FreeName(f, NotImagesOf(dir), n, n, 1))

\* the file copied into Not_Images and left where it was
QuarantineCopy(f, from, dir, n) == CopyFile(f, from, QuarantineTarget(f, dir, n))

\* the file system after the non-image file was moved into Not_Images
QuarantineMove(f, from, dir, n) == MoveFile(f, from, QuarantineTarget(f, dir, n))

(***************************************************************************)
(* The description generator (external): an error, a response without      *)
(* choices, or generated text.                                             *)
(***************************************************************************)
\* the text the generator produces for an image
GeneratedText(n) ==
    IF n = A_JPG
    THEN <<"*", "*", "T", "i", "t", "l", "e", ":", "*", "*", "\n", "S", "u", "n", "s", "e", "t", "\n",
          "*", "*", "D", "e", "s", "c", "r", "i", "p", "t", "i", "o", "n", ":", "*", "*", "\n",
          "A", " ", "s", "c", "e", "n", "e", "\n",
          "*", "*", "K", "e", "y", "w", "o", "r", "d", "s", ":", "*", "*", "\n",
          " ", "r", "e", "d", ",", " ", "s", "k", "y", ",", " ", "c", "a", "l", "m">>
    ELSE <<"*", "*", "T", "i", "t", "l", "e", ":", "*", "*", " ", "\"", "O", "l", "d", " ", "D", "o", "c", "k", "\"", "\n",
          "*", "*", "D", "e", "s", "c", "r", "i", "p", "t", "i", "o", "n", ":", "*", "*", " ", "B", "o", "a", "t", "s", ".", "\n",
          "*", "*", "K", "e", "y", "w", "o", "r", "d", "s", ":", "*", "*", " ", "1", ".", " ", "B", "o", "a", "t", ",", " ", "2", ".", " ", "s", "e", "a">>

Response(kind, text) == [kind |-> kind, text |-> text]

NoResponse == Response("none", <<>>)

\* "error": an error field with a message; "error_no_message": an error field that is
\* not a mapping with a message ({'error': 'quota'}, {'error': {'code': ...}})
Responses(n) == {Response("error", <<>>), Response("error_no_message", <<>>),
                 Response("no_choices", <<>>), Response("content", GeneratedText(n))}

AuthorName == <<"I", "G">>

(***************************************************************************)
(* terminate_processes_using_file (src/src/check_access.py)                *)
(***************************************************************************)
MaxProcs == 2

Pids == 1..MaxProcs

\* a process: how many descriptors it holds on which file; whether it runs ("running"),
\* has exited and still has its pid because nothing has collected it yet ("exited"), or
\* is gone ("gone"); and whether the caller is denied access to it
Proc(fds, state, kind, file) == [fds |-> fds, state |-> state, kind |-> kind, file |-> file]

\* the argument of the guard before the guard is called
NoPath == Path(<<>>, <<>>)

\* "plain" processes exit on the termination signal, "protected" ones cannot be
\* signalled by the caller, "stubborn" ones take the signal and ignore it
ProcSets(file) ==
    [Pids -> {Proc(fds, "running", kind, file) : fds \in 0..2, kind \in {"plain", "protected"}}
               \cup {Proc(1, "running", "stubborn", file)}]

\* no process holds a file
NoHolders == [pid \in Pids |-> Proc(0, "running", "plain", NoPath)]

\* the guard has not been called yet
GuardIdle ==
    /\ filepath = NoPath
    /\ processes = <<>>
    /\ proc_idx = 1
    /\ signalled = {}

\* a host where nothing holds a file and the guard does nothing
LockIdle ==
    /\ platform = "Linux"
    /\ procs = NoHolders
    /\ GuardIdle

\* get_processes_using_file_mac: one line of lsof per descriptor, in the order of lsof;
\* lsof lists a process the caller has no access to only when it is allowed to see it
ReportsMac ==
    LET held == {pid \in Pids : /\ procs[pid].fds > 0
                                 /\ procs[pid].state = "running"
                                 /\ procs[pid].file = filepath}
        hidden == {pid \in held : procs[pid].kind = "protected"}
        \* the sequences that list the pid of every process in S once per descriptor
        Reports(S) ==
            LET n == IF S = {} THEN 0 ELSE Cardinality(S) * 2
            IN {l \in UNION {[1..k -> S] : k \in 0..n} :
                  \A pid \in S : Cardinality({i \in DOMAIN l : l[i] = pid}) = procs[pid].fds}
    IN UNION {Reports((held \ hidden) \cup seen) : seen \in SUBSET hidden}

\* file.path.lower() and filepath.lower() of line 79
LowerPath(p) ==
    [dir |-> [i \in DOMAIN p.dir |-> IF p.dir[i] = "Not_Images" THEN "not_images" ELSE p.dir[i]],
     name |-> Lower(p.name)]

\* get_processes_using_file_windows: the scan goes by pid, and open_files() names a
\* path once however many handles the process holds on it; a process whose open files
\* cannot be read is skipped, and a process the caller may not terminate is listed when
\* its open files can be read
ReportsWindows ==
    LET held == {pid \in Pids : /\ procs[pid].fds > 0
                                 /\ procs[pid].state = "running"
                                 /\ LowerPath(procs[pid].file) = LowerPath(filepath)}
        hidden == {pid \in held : procs[pid].kind = "protected"}
        Ascending(S) == CHOOSE l \in [1..Cardinality(S) -> S] :
                            \A i, j \in DOMAIN l : i < j => l[i] < l[j]
    IN {Ascending((held \ hidden) \cup seen) : seen \in SUBSET hidden}

\* the programs that run the guard: the guard called on its own, and add_metadata
\* (image_describer.py line 193)
LockRunning ==
    /\ prog \in {"terminate_processes_using_file", "add_metadata"} /\ status = "running"
    /\ pc \in {"enumerate", "terminate", "wait"}

\* the guard returns to its caller: add_metadata goes on with the extension test
LockReturns ==
    /\ pc' = IF prog = "add_metadata" THEN "classify" ELSE "exit"
    /\ status' = IF prog = "add_metadata" THEN status ELSE "returned"

\* process.wait() comes back at once, without waiting
WaitReturnsAtOnce(pid) == TRUE

\* process.wait() comes back when the pid no longer exists: a process that has exited
\* keeps its pid until it is collected
WaitReturns(pid) == procs[pid].state = "gone"

\* lines 21-27: what the guard does for a value of platform.system()
Strategy(p) ==
    CASE p = "Darwin" -> "lsof"
      [] p = "Windows" -> "psutil"
      [] OTHER -> "unsupported"

\* lines 21-27: the enumeration chosen by platform.system(). The logger is set to
\* INFO (logging_config.py:46): the debug record of line 59 is dropped
LockEnumerate ==
    /\ LockRunning /\ pc = "enumerate"
    /\ proc_idx' = 1
    /\ \/ /\ Strategy(platform) = "lsof"
          /\ \/ /\ processes' \in ReportsMac   \* lsof lists the holders, or ends with
                /\ pc' = "terminate"           \* status 1: logger.debug writes no line
                /\ UNCHANGED <<status, logged>>
             \/ /\ processes' = <<>>             \* lsof ends with another error status
                /\ logged' = Append(logged, Log("error", "lsof"))
                /\ pc' = "terminate"
                /\ UNCHANGED status
             \/ /\ UNCHANGED <<processes, logged>>  \* lsof cannot be run: not caught
                /\ status' = "crashed"
                /\ pc' = "exit"
       \/ /\ Strategy(platform) = "psutil"
          /\ processes' \in ReportsWindows
          /\ pc' = "terminate"
          /\ UNCHANGED <<status, logged>>
       \/ /\ Strategy(platform) = "unsupported"       \* "Unsupported operating system."
          /\ logged' = Append(logged, Log("error", "unsupported"))
          /\ UNCHANGED processes
          /\ LockReturns
    /\ UNCHANGED <<process_time, time_report, first_call, prog, same_dir,
                   image_files, idx, fs, fs0, temp_image_path, response, parsed, info,
                   processed_count, unprocessed_count, filtered_files, item_fs, hist, platform,
                   procs, signalled, filepath>>

\* what psutil.Process(pid) and process.terminate() raise for a process: a pid that no
\* longer exists is not found, and the signal can be refused; a process that has exited
\* and not been collected yet takes the signal like a running one
Raised(pid) ==
    IF procs[pid].state = "gone" THEN "NoSuchProcess"
    ELSE IF procs[pid].kind = "protected" THEN "AccessDenied"
    ELSE "none"

\* a handler that knows psutil.NoSuchProcess alone
CaughtNoSuchProcessOnly(exc) == exc = "NoSuchProcess"

\* lines 98-101: the except clauses of terminate_process
Caught(exc) == exc \in {"NoSuchProcess", "AccessDenied"}

\* lines 29-31 and 93-95: terminate_process(pid) up to process.terminate()
LockTerminate ==
    /\ LockRunning /\ pc = "terminate" /\ proc_idx <= Len(processes)
    /\ LET pid == processes[proc_idx]
           exc == Raised(pid)
       IN \/ /\ exc = "none"
             /\ signalled' = signalled \cup {pid}
             /\ pc' = "wait"
             /\ UNCHANGED <<proc_idx, status, logged>>
          \/ /\ exc # "none" /\ Caught(exc)          \* lines 98-101: warning or error
             /\ logged' = Append(logged, Log(IF exc = "NoSuchProcess" THEN "warning"
                                              ELSE "error", exc))
             /\ proc_idx' = proc_idx + 1
             /\ UNCHANGED <<pc, signalled, status>>
          \/ /\ exc # "none" /\ ~Caught(exc)         \* the exception leaves the guard
             /\ status' = "crashed"
             /\ pc' = "exit"
             /\ UNCHANGED <<proc_idx, signalled, logged>>
    /\ UNCHANGED <<process_time, time_report, first_call, prog, same_dir,
                   image_files, idx, fs, fs0, temp_image_path, response, parsed, info,
                   processed_count, unprocessed_count, filtered_files, item_fs, hist, platform,
                   procs, processes, filepath>>

\* lines 96-99: process.wait() has come back; the termination is logged when
\* process.name() still finds a name for the pid, and otherwise name() raises
\* NoSuchProcess and the warning of line 99 is logged instead
LockWait ==
    /\ LockRunning /\ pc = "wait"
    /\ WaitReturns(processes[proc_idx])
    /\ \/ logged' = Append(logged, Log("info", "terminated"))
       \/ logged' = Append(logged, Log("warning", "NoSuchProcess"))
    /\ proc_idx' = proc_idx + 1
    /\ pc' = "terminate"
    /\ UNCHANGED <<process_time, time_report, first_call, prog, same_dir,
                   image_files, idx, fs, fs0, temp_image_path, response, parsed, info,
                   processed_count, unprocessed_count, filtered_files, status, item_fs, hist,
                   platform, procs, processes, signalled, filepath>>

\* lines 29-33: the loop is over, or there was nothing to terminate
LockReturn ==
    /\ LockRunning /\ pc = "terminate" /\ proc_idx > Len(processes)
    /\ logged' = IF processes = <<>>      \* line 33: "No processes are using the file"
                 THEN Append(logged, Log("info", "no_processes"))
                 ELSE logged
    /\ LockReturns
    /\ UNCHANGED <<process_time, time_report, platform, procs, processes, signalled,
                   filepath, proc_idx, first_call, prog, same_dir, image_files, idx, fs, fs0,
                   temp_image_path, response, parsed, info, processed_count, unprocessed_count,
                   filtered_files, item_fs, hist>>

\* process.terminate() ends the process: TerminateProcess on Windows cannot be refused,
\* SIGTERM elsewhere ends a process unless the process ignores it
\* (the host): a process that was signalled and obeys the signal exits
SignalledExits ==
    /\ LockRunning
    /\ \E pid \in signalled :
         /\ procs[pid].state = "running"
         /\ procs[pid].kind = "plain" \/ platform = "Windows"
         /\ procs' = [procs EXCEPT ![pid].state = "exited"]
    /\ UNCHANGED <<process_time, time_report, logged, first_call, prog, same_dir,
                   image_files, idx, pc, fs, fs0, temp_image_path, response, parsed, info,
                   processed_count, unprocessed_count, filtered_files, status, item_fs, hist,
                   platform, processes, signalled, filepath, proc_idx>>

\* the host: a process that has exited is collected and its pid is gone
ProcessCollected ==
    /\ LockRunning
    /\ \E pid \in Pids :
         /\ procs[pid].state = "exited"
         /\ procs' = [procs EXCEPT ![pid].state = "gone"]
    /\ UNCHANGED <<process_time, time_report, logged, first_call, prog, same_dir,
                   image_files, idx, pc, fs, fs0, temp_image_path, response, parsed, info,
                   processed_count, unprocessed_count, filtered_files, status, item_fs, hist,
                   platform, processes, signalled, filepath, proc_idx>>

\* the host: a running process that holds the file exits by itself, at any time
ProcessExits ==
    /\ LockRunning
    /\ \E pid \in Pids :
         /\ procs[pid].state = "running" /\ procs[pid].fds > 0
         /\ procs' = [procs EXCEPT ![pid].state = "exited"]
    /\ UNCHANGED <<process_time, time_report, logged, first_call, prog, same_dir,
                   image_files, idx, pc, fs, fs0, temp_image_path, response, parsed, info,
                   processed_count, unprocessed_count, filtered_files, status, item_fs, hist,
                   platform, processes, signalled, filepath, proc_idx>>

(***************************************************************************)
(* The elapsed-time line of the summary reporters, on whole seconds.        *)
(***************************************************************************)
\* "Images processing time is {t} seconds."
SecondsReport(t) ==
    [unit |-> "seconds", hours |-> 0, minutes |-> 0, seconds |-> t, word |-> ""]

\* "... {t // 60} minutes {t % 60} seconds."
MinutesReport(t) ==
    [unit |-> "minutes", hours |-> 0, minutes |-> t \div 60, seconds |-> t % 60, word |-> ""]

\* "... {t // 3600} hour(s) {(t % 3600) // 60} minutes {secs} seconds."
HoursReport(t, secs) ==
    [unit |-> "hours", hours |-> t \div 3600, minutes |-> (t % 3600) \div 60,
     seconds |-> secs, word |-> IF t \div 3600 = 1 THEN "hour" ELSE "hours"]

\* image_describer.py lines 292-319
AddMetadataReport(t) ==
    IF t < 60 THEN SecondsReport(t)
    ELSE IF 60 < t /\ t < 3600 THEN MinutesReport(t)
    ELSE HoursReport(t, (t % 3600) % 60)

\* caption_csv_generator.py lines 132-160
WriteDataToCsvReport(t) ==
    IF t < 60 THEN SecondsReport(t)
    ELSE IF 60 < t /\ t < 3600 THEN MinutesReport(t)
    ELSE HoursReport(t, (t % 3600) % 60)

\* services/process_timer.py lines 20-46
ExecutionTimerReport(t) ==
    IF t < 60 THEN SecondsReport(t)
    ELSE IF 60 <= t /\ t < 3600 THEN MinutesReport(t)
    ELSE HoursReport(t, t % 60)

(***************************************************************************)
(* ImagesDescriber.add_metadata                                            *)
(***************************************************************************)
CurrentItem == image_files[idx]

\* image_path = os.path.join(self.src_path, image_name)
ImagePath(n) == Path(SrcDir, n)

\* self.dst_path = dst_path if dst_path else src_path
DstDir == IF same_dir THEN SrcDir ELSE <<"dst">>

\* destination_path = os.path.join(self.dst_path, image_name)
DestinationPath(n) == Path(DstDir, n)

\* the name tempfile.NamedTemporaryFile(delete=False) hands out while item k is handled
TempPath(k) == Path(TmpDir, <<"t", "m", "p">> \o Decimal(k))

Unbound == [bound |-> FALSE, path |-> Path(TmpDir, <<>>)]
Bound(p) == [bound |-> TRUE, path |-> p]

NoParse == [title |-> <<>>, description |-> <<>>, keywords |-> [list |-> TRUE, toks |-> <<>>]]

Outcome(n, what, why) == [name |-> n, outcome |-> what, why |-> why]

\* the extension test and os.path.isfile(image_path) of the loop body
IsImageItem(n) == HasImageExtension(n) /\ Exists(fs, ImagePath(n))

\* the try block with the temporary copy made before the generator is called
ImageStepsCopyFirst == <<"copy", "photo", "parse", "verify", "load", "save", "move">>

\* the statements of the try block of the image branch, in the order of the code
ImageSteps == <<"photo", "parse", "verify", "copy", "load", "save", "move">>

StepAfter(step) ==
    LET i == CHOOSE k \in 1..Len(ImageSteps) : ImageSteps[k] = step
    IN IF i = Len(ImageSteps) THEN "loop" ELSE ImageSteps[i + 1]

\* only line 238: the by-line is set, the other fields stay as loaded
WithAuthorOnly(container, p, author) == [container EXCEPT !.present = TRUE, !.byline = author]

\* lines 235-238: the four fields set on the container
WithFields(container, p, author) ==
    [present |-> TRUE, title |-> p.title, description |-> p.description,
     keywords |-> p.keywords.toks, byline |-> author]

\* info.save_as(target) of iptcinfo3, info read from origin: a file already at target
\* is moved to target~, then the image with the new container is written at target
SaveAs(f, origin, target, container) ==
    LET img == f[origin]
        kept == IF Exists(f, target) THEN WriteFile(f, BackupPath(target), f[target]) ELSE f
    IN WriteFile(kept, target, File(img.fmt, img.pix, container))

\* the alternative of the older revision: info.save_as(destination_path)
SaveTargetDestination == DestinationPath(CurrentItem)

\* line 241: the path the container is saved to
SaveTarget == temp_image_path.path

\* ImagesDescriber.remove_backup_file(filename)
RemoveBackupFile(f, p) ==
    IF Exists(f, BackupPath(p)) THEN RemoveFile(f, BackupPath(p)) ELSE f

\* lines 254-256: except Exception: log, unprocessed_count += 1, on to the next item
ExceptHandler(why) ==
    /\ unprocessed_count' = unprocessed_count + 1
    /\ idx' = idx + 1
    /\ pc' = "loop"
    /\ hist' = Append(hist, Outcome(CurrentItem, "failed", why))
    /\ UNCHANGED <<processed_count, status>>

Running(p) == prog = p /\ status = "running"

\* lines 188-193: the next item, its paths, and the call
\* terminate_processes_using_file(image_path), made for the item whatever it is
ClearLocks ==
    /\ Running("add_metadata") /\ pc = "loop" /\ idx <= Len(image_files)
    /\ item_fs' = fs
    /\ filepath' = ImagePath(CurrentItem)
    /\ pc' = "enumerate"
    /\ UNCHANGED <<process_time, time_report, logged, first_call, prog, same_dir,
                   image_files, idx, fs, fs0, temp_image_path, response, parsed, info,
                   processed_count, unprocessed_count, filtered_files, status, hist, platform,
                   procs, processes, signalled, proc_idx>>

\* lines 196-208: the extension test and os.path.isfile choose the branch
BeginItem ==
    /\ Running("add_metadata") /\ pc = "classify"
    /\ pc' = IF IsImageItem(CurrentItem) THEN ImageSteps[1] ELSE "quarantine"
    /\ UNCHANGED <<process_time, time_report, logged, platform, procs, processes, signalled,
                   filepath, proc_idx, first_call, prog, same_dir, image_files, idx, fs, fs0,
                   temp_image_path, response, parsed, info, processed_count, unprocessed_count,
                   filtered_files, status, item_fs, hist>>

\* line 130: response_data = self.process_photo(image_file)
ProcessPhoto ==
    /\ Running("add_metadata") /\ pc = "photo"
    /\ response' \in Responses(CurrentItem)
    /\ pc' = StepAfter("photo")
    /\ UNCHANGED <<process_time, time_report, logged, platform, procs, processes, signalled,
                   filepath, proc_idx, first_call, prog, same_dir, image_files, idx, fs, fs0,
                   temp_image_path, parsed, info, processed_count, unprocessed_count,
                   filtered_files, status, item_fs, hist>>

\* lines 132-162 and the unpacking of line 211
ParseResponse ==
    /\ Running("add_metadata") /\ pc = "parse"
    /\ \/ /\ response.kind = "error"  \* lines 133-135: the message is logged, sys.exit(1)
          /\ status' = "exit1"         \* raises SystemExit, which except Exception lets pass
          /\ pc' = "exit"
          /\ hist' = Append(hist, Outcome(CurrentItem, "fatal", "response"))
          /\ UNCHANGED <<processed_count, unprocessed_count, idx, parsed>>
       \/ /\ response.kind = "error_no_message"  \* line 134: ['message'] raises in the try
          /\ ExceptHandler("response")
          /\ UNCHANGED parsed
       \/ /\ response.kind = "no_choices"       \* response_data['choices'] raises KeyError
          /\ ExceptHandler("response")
          /\ UNCHANGED parsed
       \/ /\ response.kind = "content"
          /\ parsed' = DescriberParse(response.text)
          /\ pc' = StepAfter("parse")
          /\ UNCHANGED <<idx, processed_count, unprocessed_count, status, hist>>
    /\ response' = NoResponse  \* response_data is a local of parse_response
    /\ UNCHANGED <<process_time, time_report, logged, platform, procs, processes, signalled,
                   filepath, proc_idx, first_call, prog, same_dir, image_files, fs, fs0,
                   temp_image_path, info, filtered_files, item_fs>>

\* lines 214-218: Image.open, img.verify(), isinstance(img, JpegImageFile)
OpenVerify ==
    /\ Running("add_metadata") /\ pc = "verify"
    /\ LET fmt == FileAt(fs, ImagePath(CurrentItem)).fmt
       IN \/ /\ fmt = "jpeg"
             /\ pc' = StepAfter("verify")
             /\ UNCHANGED <<idx, processed_count, unprocessed_count, status, hist>>
          \/ /\ fmt \in {"png", "webp"}
             /\ pc' = "save_other"
             /\ UNCHANGED <<idx, processed_count, unprocessed_count, status, hist>>
          \/ /\ fmt \notin {"jpeg", "png", "webp"}      \* UnidentifiedImageError
             /\ ExceptHandler("corrupt")
    /\ UNCHANGED <<process_time, time_report, logged, platform, procs, processes, signalled,
                   filepath, proc_idx, first_call, prog, same_dir, image_files, fs, fs0,
                   temp_image_path, response, parsed, info, filtered_files, item_fs>>

\* lines 221-223: the temporary file is created, then the image is copied over it
CopyTemp ==
    /\ Running("add_metadata") /\ pc = "copy"
    /\ \/ /\ temp_image_path' = Bound(TempPath(idx))
          /\ fs' = CopyFile(WriteFile(fs, TempPath(idx), File("empty", "", EmptyIptc)),
                            ImagePath(CurrentItem), TempPath(idx))
          /\ pc' = StepAfter("copy")
          /\ UNCHANGED <<idx, processed_count, unprocessed_count, status, hist>>
       \/ /\ UNCHANGED <<temp_image_path, fs>>      \* NamedTemporaryFile raises
          /\ ExceptHandler("io")
       \/ /\ temp_image_path' = Bound(TempPath(idx))     \* shutil.copyfile raises
          /\ fs' = WriteFile(fs, TempPath(idx), File("empty", "", EmptyIptc))
          /\ ExceptHandler("io")
    /\ UNCHANGED <<process_time, time_report, logged, platform, procs, processes, signalled,
                   filepath, proc_idx, first_call, prog, same_dir, image_files, fs0, response,
                   parsed, info, filtered_files, item_fs>>

\* lines 226-232: IPTCInfo(temp_image_path), and IPTCInfo(None) when that raises
LoadIptc ==
    /\ Running("add_metadata") /\ pc = "load"
    /\ \/ /\ info' = fs[temp_image_path.path].iptc
          /\ pc' = StepAfter("load")
          /\ UNCHANGED <<idx, processed_count, unprocessed_count, status, hist>>
       \/ /\ info' = EmptyIptc                     \* the fallback container
          /\ pc' = StepAfter("load")
          /\ UNCHANGED <<idx, processed_count, unprocessed_count, status, hist>>
       \/ /\ UNCHANGED info                        \* the fallback raises as well
          /\ ExceptHandler("io")
    /\ UNCHANGED <<process_time, time_report, logged, platform, procs, processes, signalled,
                   filepath, proc_idx, first_call, prog, same_dir, image_files, fs, fs0,
                   temp_image_path, response, parsed, filtered_files, item_fs>>

\* lines 235-241: the fields are set and the container is saved into the temporary file
SaveIptc ==
    /\ Running("add_metadata") /\ pc = "save"
    /\ \/ /\ parsed.keywords.list
          /\ info' = WithFields(info, parsed, AuthorName)
          /\ \/ /\ fs' = SaveAs(fs, temp_image_path.path, SaveTarget, info')
                /\ pc' = StepAfter("save")
                /\ UNCHANGED <<idx, processed_count, unprocessed_count, status, hist>>
             \/ /\ UNCHANGED fs                    \* line 241: save_as raises
                /\ ExceptHandler("io")
       \/ /\ ~parsed.keywords.list                \* line 237 raises on the str "No Keywords",
          /\ info' = [info EXCEPT !.present = TRUE, !.title = parsed.title,
                                  !.description = parsed.description]
          /\ UNCHANGED fs                          \* lines 235-236 having been run
          /\ ExceptHandler("io")
    /\ UNCHANGED <<process_time, time_report, logged, platform, procs, processes, signalled,
                   filepath, proc_idx, first_call, prog, same_dir, image_files, fs0,
                   temp_image_path, response, parsed, filtered_files, item_fs>>

\* lines 242-244: shutil.move(temp_image_path, destination_path); processed_count += 1
MoveTemp ==
    /\ Running("add_metadata") /\ pc = "move"
    /\ \/ /\ fs' = MoveFile(fs, temp_image_path.path, DestinationPath(CurrentItem))
          /\ processed_count' = processed_count + 1
          /\ idx' = idx + 1
          /\ pc' = StepAfter("move")
          /\ hist' = Append(hist, Outcome(CurrentItem, "processed", ""))
          /\ UNCHANGED <<unprocessed_count, status>>
       \/ /\ UNCHANGED fs                          \* the move raises
          /\ ExceptHandler("io")
    /\ UNCHANGED <<process_time, time_report, logged, platform, procs, processes, signalled,
                   filepath, proc_idx, first_call, prog, same_dir, image_files, fs0,
                   temp_image_path, response, parsed, info, filtered_files, item_fs>>

\* line 248: img.save(destination_path) on an image that verify() has been called on.
\* save() loads the pixels before it opens the destination. A PNG reads them from the
\* file verify() has closed: loading raises and nothing is written. A WebP was read
\* whole when it was opened: it is encoded again, without its metadata, and written to
\* the destination in the format of the extension.
ImageSave(f, from, to) ==
    IF f[from].fmt = "webp"
    THEN [raised |-> FALSE,
          fs |-> WriteFile(f, to, File("webp", <<"encoded again">> \o f[from].pix, EmptyIptc))]
    ELSE [raised |-> TRUE, fs |-> f]

\* lines 246-252: the branch of the other image formats
SaveOther ==
    /\ Running("add_metadata") /\ pc = "save_other"
    /\ LET r == ImageSave(fs, ImagePath(CurrentItem), DestinationPath(CurrentItem))
       IN \/ /\ r.raised
             /\ UNCHANGED fs
             /\ ExceptHandler("unsupported")
          \/ /\ ~r.raised
             /\ fs' = r.fs                         \* the info message of lines 249-252
             /\ hist' = Append(hist, Outcome(CurrentItem, "saved_as_is", ""))
             /\ idx' = idx + 1
             /\ pc' = "loop"
             /\ UNCHANGED <<processed_count, unprocessed_count, status>>
          \/ /\ ~r.raised                          \* the destination cannot be opened
             /\ UNCHANGED fs
             /\ ExceptHandler("io")
    /\ UNCHANGED <<process_time, time_report, logged, platform, procs, processes, signalled,
                   filepath, proc_idx, first_call, prog, same_dir, image_files, fs0,
                   temp_image_path, response, parsed, info, filtered_files, item_fs>>

\* lines 259-281: the non-image branch up to its except clauses
Quarantine ==
    /\ Running("add_metadata") /\ pc = "quarantine"
    /\ \/ /\ Exists(fs, ImagePath(CurrentItem))
          /\ fs' = QuarantineMove(fs, ImagePath(CurrentItem), DstDir, CurrentItem)
          /\ hist' = Append(hist, Outcome(CurrentItem, "quarantined", ""))
       \/ /\ UNCHANGED fs                          \* mkdir or shutil.move raises: logged
          /\ hist' = Append(hist, Outcome(CurrentItem, "move_failed", "io"))
    /\ pc' = "finally"
    /\ UNCHANGED <<process_time, time_report, logged, platform, procs, processes, signalled,
                   filepath, proc_idx, first_call, prog, same_dir, image_files, idx, fs0,
                   temp_image_path, response, parsed, info, processed_count, unprocessed_count,
                   filtered_files, status, item_fs>>

\* lines 282-288: the finally clause of the non-image branch
QuarantineFinally ==
    /\ Running("add_metadata") /\ pc = "finally"
    /\ LET f1 == RemoveBackupFile(fs, DestinationPath(CurrentItem))
       IN IF ~temp_image_path.bound
          THEN \* reading the unassigned local raises UnboundLocalError out of the loop
               /\ fs' = f1
               /\ status' = "crashed"
               /\ pc' = "exit"
               /\ UNCHANGED idx
          ELSE /\ fs' = IF Exists(f1, temp_image_path.path)
                        THEN RemoveFile(f1, temp_image_path.path) ELSE f1
               /\ idx' = idx + 1
               /\ pc' = "loop"
               /\ UNCHANGED status
    /\ UNCHANGED <<process_time, time_report, logged, platform, procs, processes, signalled,
                   filepath, proc_idx, first_call, prog, same_dir, image_files, fs0,
                   temp_image_path, response, parsed, info, processed_count, unprocessed_count,
                   filtered_files, item_fs, hist>>

\* lines 290-319: the loop is over and the summary is logged
Summary ==
    /\ Running("add_metadata") /\ pc = "loop" /\ idx > Len(image_files)
    /\ status' = "done"
    /\ pc' = "exit"
    /\ time_report' = AddMetadataReport(process_time)
    /\ UNCHANGED <<process_time, logged, platform, procs, processes, signalled, filepath,
                   proc_idx, first_call, prog, same_dir, image_files, idx, fs, fs0,
                   temp_image_path, response, parsed, info, processed_count, unprocessed_count,
                   filtered_files, item_fs, hist>>

(***************************************************************************)
(* filter_files_by_extension(src_path), alone or as the first call of      *)
(* write_data_to_csv                                                       *)
(***************************************************************************)
Filtering == prog \in {"filter", "csv"} /\ status = "running" /\ pc = "loop"

\* lines 37-61: an entry with an image extension is opened; Image.open is not guarded
FilterImage ==
    /\ Filtering /\ idx <= Len(image_files)
    /\ IsImageItem(CurrentItem)
    /\ LET fmt == FileAt(fs, ImagePath(CurrentItem)).fmt
       IN \/ /\ fmt = "jpeg"
             /\ filtered_files' = Append(filtered_files, CurrentItem)
             /\ hist' = Append(hist, Outcome(CurrentItem, "accepted", ""))
             /\ idx' = idx + 1
             /\ UNCHANGED <<status, pc>>
          \/ /\ fmt \in {"png", "webp"}            \* the warning of lines 58-61
             /\ hist' = Append(hist, Outcome(CurrentItem, "unsupported", ""))
             /\ idx' = idx + 1
             /\ UNCHANGED <<status, pc, filtered_files>>
          \/ /\ fmt \notin {"jpeg", "png", "webp"} \* UnidentifiedImageError leaves the function
             /\ status' = "crashed"
             /\ pc' = "exit"
             /\ hist' = Append(hist, Outcome(CurrentItem, "raised", "corrupt"))
             /\ UNCHANGED <<idx, filtered_files>>
    /\ UNCHANGED <<process_time, time_report, logged, platform, procs, processes, signalled,
                   filepath, proc_idx, first_call, prog, same_dir, image_files, fs, fs0,
                   temp_image_path, response, parsed, info, processed_count, unprocessed_count,
                   item_fs>>

\* lines 63-87: the non-image branch
FilterQuarantine ==
    /\ Filtering /\ idx <= Len(image_files)
    /\ ~IsImageItem(CurrentItem)
    /\ \/ /\ Exists(fs, ImagePath(CurrentItem))
          /\ fs' = QuarantineMove(fs, ImagePath(CurrentItem), SrcDir, CurrentItem)
          /\ hist' = Append(hist, Outcome(CurrentItem, "quarantined", ""))
       \/ /\ UNCHANGED fs                          \* mkdir or shutil.move raises: logged
          /\ hist' = Append(hist, Outcome(CurrentItem, "move_failed", "io"))
    /\ idx' = idx + 1
    /\ UNCHANGED <<process_time, time_report, logged, platform, procs, processes, signalled,
                   filepath, proc_idx, first_call, prog, same_dir, image_files, pc, fs0,
                   temp_image_path, response, parsed, info, processed_count, unprocessed_count,
                   filtered_files, status, item_fs>>

NotCalled == [calls |-> 0, files |-> <<>>, fs |-> [p \in {} |-> 0], moved_all |-> TRUE]

\* lines 89-91: return filtered_files
FilterReturn ==
    /\ Filtering /\ prog = "filter" /\ idx > Len(image_files)
    /\ status' = "returned"
    /\ pc' = "exit"
    /\ first_call' =
         IF first_call.calls = 0
         THEN [calls |-> 1, files |-> filtered_files, fs |-> fs,
               moved_all |-> \A i \in 1..Len(hist) : hist[i].outcome # "move_failed"]
         ELSE [first_call EXCEPT !.calls = @ + 1]
    /\ UNCHANGED <<process_time, time_report, logged, platform, procs, processes, signalled,
                   filepath, proc_idx, prog, same_dir, image_files, idx, fs, fs0,
                   temp_image_path, response, parsed, info, processed_count, unprocessed_count,
                   filtered_files, item_fs, hist>>

\* lines 29-32: the files of src_path whose name does not start with a dot
Listings(f) ==
    LET names == {q.name : q \in {r \in DOMAIN f :
                      /\ r.dir = SrcDir
                      /\ ~(r.name # <<>> /\ r.name[1] = ".")}}
        k == Cardinality(names)
    IN {l \in [1..k -> names] : \A i, j \in 1..k : l[i] = l[j] => i = j}

\* lines 14-32: the function is called once more on the same directory
FilterAgain ==
    /\ prog = "filter" /\ status = "returned" /\ first_call.calls = 1
    /\ image_files' \in Listings(fs)
    /\ filtered_files' = <<>>
    /\ idx' = 1
    /\ pc' = "loop"
    /\ status' = "running"
    /\ UNCHANGED <<process_time, time_report, logged, platform, procs, processes, signalled,
                   filepath, proc_idx, first_call, prog, same_dir, fs, fs0, temp_image_path,
                   response, parsed, info, processed_count, unprocessed_count, item_fs, hist>>

(***************************************************************************)
(* CaptionCSVGenerator.write_data_to_csv                                   *)
(***************************************************************************)
\* csv_filepath: a file named after the current date and time under dst_path
CsvPath == Path(DstDir, <<"c", "a", "p", "t", "i", "o", "n", "s", ".", "c", "s", "v">>)

Row(kind, n, title, description, keywords) ==
    [kind |-> kind, image_name |-> n, title |-> title, description |-> description,
     keywords |-> keywords]

HeaderRow == Row("header", <<>>, <<>>, <<>>, <<>>)

\* response_parser.py line 13: def parse_response(gpt_response)
ParseResponseParameters == {"gpt_response"}

\* lines 107-111: parse_response(image_file=..., prompt=..., image_caption=...)
ParseResponseKeywords == {"image_file", "prompt", "image_caption"}

\* no except clause: the exception of an item leaves write_data_to_csv
CsvExceptHandlerRaising(why) ==
    /\ status' = "crashed"
    /\ pc' = "exit"
    /\ hist' = Append(hist, Outcome(filtered_files[idx], "failed", why))
    /\ UNCHANGED <<idx, processed_count, unprocessed_count>>

\* line 120: except Exception: the item is logged and skipped
CsvExceptHandler(why) ==
    /\ idx' = idx + 1
    /\ pc' = "csv_loop"
    /\ hist' = Append(hist, Outcome(filtered_files[idx], "failed", why))
    /\ UNCHANGED <<processed_count, unprocessed_count, status>>

\* lines 61-80: the filter has returned; the CSV file is opened and the header written
CsvOpen ==
    /\ Filtering /\ prog = "csv" /\ idx > Len(image_files)
    /\ \/ /\ fs' = WriteFile(fs, CsvPath, [File("csv", "", EmptyIptc) EXCEPT !.rows = <<HeaderRow>>])
          /\ idx' = 1
          /\ pc' = "csv_loop"
          /\ UNCHANGED status
       \/ /\ UNCHANGED <<fs, idx>>                 \* lines 124-126: open raises, return
          /\ status' = "returned"
          /\ pc' = "exit"
       \/ /\ ~same_dir                             \* line 68: os.makedirs raises, outside
          /\ UNCHANGED <<fs, idx>>                 \* the try
          /\ status' = "crashed"
          /\ pc' = "exit"
    /\ UNCHANGED <<process_time, time_report, logged, platform, procs, processes, signalled,
                   filepath, proc_idx, first_call, prog, same_dir, image_files, fs0,
                   temp_image_path, response, parsed, info, processed_count, unprocessed_count,
                   filtered_files, item_fs, hist>>

\* lines 83-104: the image is opened and its caption is read
CsvBeginItem ==
    /\ Running("csv") /\ pc = "csv_loop" /\ idx <= Len(filtered_files)
    /\ item_fs' = fs
    /\ \/ /\ info' = FileAt(fs, ImagePath(filtered_files[idx])).iptc
          /\ pc' = "csv_call"
          /\ UNCHANGED <<idx, hist>>
       \/ /\ UNCHANGED info                        \* open(image_path) raises
          /\ CsvExceptHandler("io")
    /\ UNCHANGED <<process_time, time_report, logged, platform, procs, processes, signalled,
                   filepath, proc_idx, first_call, prog, same_dir, image_files, fs, fs0,
                   temp_image_path, response, parsed, processed_count, unprocessed_count,
                   filtered_files, status>>

\* lines 107-120: the call of the parser imported at line 12 (src.response_parser);
\* the keywords do not name its parameter, so the call raises TypeError before the
\* generator is reached, and the except clause of line 120 logs the item
CsvParseCall ==
    /\ Running("csv") /\ pc = "csv_call"
    /\ ParseResponseKeywords # ParseResponseParameters
    /\ CsvExceptHandler("call")
    /\ UNCHANGED <<process_time, time_report, logged, platform, procs, processes, signalled,
                   filepath, proc_idx, first_call, prog, same_dir, image_files, fs, fs0,
                   temp_image_path, response, parsed, info, filtered_files, item_fs>>

\* lines 123-160: unprocessed_count and the summary
CsvSummary ==
    /\ Running("csv") /\ pc = "csv_loop" /\ idx > Len(filtered_files)
    /\ unprocessed_count' = Len(filtered_files) - processed_count
    /\ status' = "done"
    /\ pc' = "exit"
    /\ time_report' = WriteDataToCsvReport(process_time)
    /\ UNCHANGED <<process_time, logged, platform, procs, processes, signalled, filepath,
                   proc_idx, first_call, prog, same_dir, image_files, idx, fs, fs0,
                   temp_image_path, response, parsed, info, processed_count, filtered_files,
                   item_fs, hist>>

(***************************************************************************)
(* Initial states: a source directory listed in any order, in which at     *)
(* most one file with an image extension is not a JPEG, an optional        *)
(* separate destination that may hold older copies, and a Not_Images       *)
(* folder that may already hold b.txt and, when b.txt is in the batch,     *)
(* b_(1).txt, ...                                                          *)
(***************************************************************************)
ItemLists ==
    LET not_jpeg == {n \in Universe : HasImageExtension(n) /\ FormatOf(n) # "jpeg"}
    IN UNION {{s \in [1..n -> Universe] :
                 /\ \A i, j \in 1..n : s[i] = s[j] => i = j
                 /\ \A i, j \in 1..n : (s[i] \in not_jpeg /\ s[j] \in not_jpeg) => i = j} :
              n \in 0..MaxItems}

\* the first k names of b.txt, b_(1).txt, b_(2).txt, ...
RECURSIVE Chain(_, _)
Chain(n, k) == IF k = 0 THEN {} ELSE
               {IF k = 1 THEN n ELSE Numbered(n, k - 1)} \cup Chain(n, k - 1)

SourceFiles(items) ==
    [p \in {ImagePath(items[i]) : i \in 1..Len(items)} |-> Original(p.name)]

OlderCopies(items) ==
    [p \in {Path(<<"dst">>, items[i]) : i \in 1..Len(items)} |-> Older(p.name)]

Quarantined(dir, k) ==
    [p \in {Path(NotImagesOf(dir), n) : n \in Chain(B_TXT, k)} |-> File("text", "kept", EmptyIptc)]

NoFiles == [p \in {} |-> Absent]

InitCommon ==
    /\ idx = 1
    /\ pc = "loop"
    /\ fs0 = fs
    /\ item_fs = fs
    /\ temp_image_path = Unbound
    /\ response = NoResponse
    /\ parsed = NoParse
    /\ info = EmptyIptc
    /\ processed_count = 0
    /\ unprocessed_count = 0
    /\ filtered_files = <<>>
    /\ status = "running"
    /\ hist = <<>>
    /\ first_call = NotCalled
    /\ ReportsIdle

\* the number of items of a batch run on a host where the guard looks at processes
MaxHeldItems == 1

\* a macOS or Windows host where one process holds the first item of a small batch
\* that is written in place
HeldHost ==
    /\ platform \in {"Darwin", "Windows"}
    /\ Len(image_files) \in 1..MaxHeldItems
    /\ same_dir /\ fs = SourceFiles(image_files)
    /\ \E kind \in {"plain", "protected", "stubborn"} :
         procs = [NoHolders EXCEPT ![1] = Proc(1, "running", kind, ImagePath(image_files[1]))]
    /\ GuardIdle

InitDescriber ==
    /\ prog = "add_metadata"
    /\ same_dir \in BOOLEAN
    /\ image_files \in ItemLists
    /\ \E older \in BOOLEAN, k \in 0..MaxCollide :
         /\ older => ~same_dir
         /\ k > 1 => \E i \in 1..Len(image_files) : image_files[i] = B_TXT
         /\ fs = SourceFiles(image_files)
                   @@ (IF older THEN OlderCopies(image_files) ELSE NoFiles)
                   @@ Quarantined(DstDir, k)
    /\ \/ LockIdle
       \/ HeldHost
    /\ InitCommon

InitFilter ==
    /\ prog = "filter"
    /\ same_dir = TRUE
    /\ image_files \in ItemLists
    /\ \E k \in 0..MaxCollide :
         fs = SourceFiles(image_files)
                @@ (Path(SrcDir, H_TXT) :> File("text", "hidden", EmptyIptc))
                @@ Quarantined(SrcDir, k)
    /\ LockIdle
    /\ InitCommon

InitCsv ==
    /\ prog = "csv"
    /\ same_dir \in BOOLEAN
    /\ image_files \in ItemLists
    /\ \E k \in 0..MaxCollide :
         fs = SourceFiles(image_files)
                @@ (Path(SrcDir, H_TXT) :> File("text", "hidden", EmptyIptc))
                @@ Quarantined(SrcDir, k)
    /\ LockIdle
    /\ InitCommon

Init == InitDescriber \/ InitFilter \/ InitCsv

Next ==
    \/ ClearLocks \/ BeginItem \/ ProcessPhoto \/ ParseResponse \/ OpenVerify \/ CopyTemp \/ LoadIptc
    \/ SaveIptc \/ MoveTemp \/ SaveOther \/ Quarantine \/ QuarantineFinally \/ Summary
    \/ FilterImage \/ FilterQuarantine \/ FilterReturn \/ FilterAgain
    \/ CsvOpen \/ CsvBeginItem \/ CsvParseCall \/ CsvSummary
    \/ LockEnumerate \/ LockTerminate \/ LockWait \/ LockReturn
    \/ SignalledExits \/ ProcessExits \/ ProcessCollected

Spec == Init /\ [][Next]_vars

(***************************************************************************)
(* The three summary reporters called on an elapsed time of their own.     *)
(***************************************************************************)
MaxElapsed == 7300

\* the reporter has written its line
TimerDone ==
    /\ status' = "returned"
    /\ pc' = "exit"
    /\ UNCHANGED <<platform, procs, processes, signalled, filepath, proc_idx, first_call, prog,
                   same_dir, image_files, idx, fs, fs0, temp_image_path, response, parsed, info,
                   processed_count, unprocessed_count, filtered_files, item_fs, hist,
                   process_time, logged>>

AddMetadataSummary ==
    /\ prog = "add_metadata_summary" /\ status = "running"
    /\ time_report' = AddMetadataReport(process_time)
    /\ TimerDone

WriteDataToCsvSummary ==
    /\ prog = "write_data_to_csv_summary" /\ status = "running"
    /\ time_report' = WriteDataToCsvReport(process_time)
    /\ TimerDone

ExecutionTimer ==
    /\ prog = "execution_timer" /\ status = "running"
    /\ time_report' = ExecutionTimerReport(process_time)
    /\ TimerDone

TimerInit ==
    /\ prog \in {"add_metadata_summary", "write_data_to_csv_summary", "execution_timer"}
    /\ process_time \in 0..MaxElapsed
    /\ time_report = NoReport
    /\ logged = <<>>
    /\ pc = "report"
    /\ same_dir = TRUE
    /\ image_files = <<>>
    /\ fs = NoFiles /\ fs0 = fs /\ item_fs = fs
    /\ idx = 1
    /\ temp_image_path = Unbound
    /\ response = NoResponse
    /\ parsed = NoParse
    /\ info = EmptyIptc
    /\ processed_count = 0 /\ unprocessed_count = 0
    /\ filtered_files = <<>>
    /\ status = "running"
    /\ hist = <<>>
    /\ first_call = NotCalled
    /\ LockIdle

TimerNext == AddMetadataSummary \/ WriteDataToCsvSummary \/ ExecutionTimer

TimerSpec == TimerInit /\ [][TimerNext]_vars

(***************************************************************************)
(* The lock guard called on a file some processes may hold: on its own,    *)
(* and by add_metadata for the only item of a batch (line 193).            *)
(***************************************************************************)
LockInit ==
    /\ \/ /\ prog = "terminate_processes_using_file"
          /\ image_files = <<>>
          /\ fs = NoFiles
       \/ /\ prog = "add_metadata"
          /\ image_files = <<A_JPG>>
          /\ fs = SourceFiles(image_files)
    /\ platform \in {"Darwin", "Windows", "Linux", "Java"}
    /\ filepath = Path(SrcDir, A_JPG)
    /\ procs \in ProcSets(filepath)
    /\ processes = <<>>
    /\ proc_idx = 1
    /\ signalled = {}
    /\ pc = "enumerate"
    /\ same_dir = TRUE
    /\ fs0 = fs /\ item_fs = fs
    /\ idx = 1
    /\ temp_image_path = Unbound
    /\ response = NoResponse
    /\ parsed = NoParse
    /\ info = EmptyIptc
    /\ processed_count = 0 /\ unprocessed_count = 0
    /\ filtered_files = <<>>
    /\ status = "running"
    /\ hist = <<>>
    /\ first_call = NotCalled
    /\ ReportsIdle

LockNext ==
    \/ LockEnumerate \/ LockTerminate \/ LockWait \/ LockReturn
    \/ SignalledExits \/ ProcessExits \/ ProcessCollected

LockSpec == LockInit /\ [][LockNext]_vars

\* the guard called on its own
LockAloneInit == LockInit /\ prog = "terminate_processes_using_file"

\* the guard called on its own is not held up by its scheduler, a process that obeys
\* the signal exits, and a process that has exited is collected
LockFairSpec ==
    /\ LockAloneInit
    /\ [][LockNext]_vars
    /\ WF_vars(LockEnumerate \/ LockTerminate \/ LockWait \/ LockReturn)
    /\ WF_vars(SignalledExits)
    /\ WF_vars(ProcessCollected)

(***************************************************************************)
(* The parsers called on their own, on generated text made of sections:    *)
(* a bold marker, a value, a newline, in any order and any subset.         *)
(***************************************************************************)
Fields == {"title", "description", "keywords"}

MarkerText(field) ==
    CASE field = "title" -> <<"*", "*", "T", "i", "t", "l", "e", ":", "*", "*", " ">>
      [] field = "description" ->
           <<"*", "*", "D", "e", "s", "c", "r", "i", "p", "t", "i", "o", "n", ":", "*", "*", " ">>
      [] OTHER -> <<"*", "*", "K", "e", "y", "w", "o", "r", "d", "s", ":", "*", "*", " ">>

\* the values a generator writes after a marker
Values(field) ==
    CASE field = "title" -> {<<"D", "a", "w", "n">>, <<"T", "o", "p", " ", "1", "0", "!">>,
                             <<"¿", "Q", "u", "é", "?">>}
      [] field = "description" ->
           {<<"A", " ", "p", "i", "e", "r", ".">>, <<"C", "a", "l", "m", ";", " ", "5", " ", "a", "m">>}
      [] OTHER -> {<<"S", "e", "a", ",", " ", "s", "k", "y">>,
                   <<"s", "e", "a", ",", "s", "k", "y">>,
                   <<"1", ".", " ", "S", "e", "a", " ", "2", ".", " ", "S", "k", "y">>,
                   <<"É", "c", "o", "l", "e", "\f", "s", "e", "a">>,
                   <<"Ω", "m", "e", "g", "a", " ", "Ο", "Σ", " ", "১", ".", "s", "k", "y">>}

Section(field, value) == [field |-> field, value |-> value]

\* the sequences of sections: each field at most once, in any order
SectionLists ==
    UNION {{l \in [1..k -> {Section(f, v) : f \in Fields, v \in UNION {Values(g) : g \in Fields}}] :
              /\ \A i \in 1..k : l[i].value \in Values(l[i].field)
              /\ \A i, j \in 1..k : l[i].field = l[j].field => i = j} : k \in 0..3}

RECURSIVE Render(_)
Render(sections) ==
    IF sections = <<>> THEN <<>>
    ELSE MarkerText(Head(sections).field) \o Head(sections).value \o <<"\n">>
         \o Render(Tail(sections))

ParserResponses ==
    {Response("error", <<>>), Response("error_no_message", <<>>),
     Response("no_choices", <<>>), Response("no_content", <<>>)}
      \cup {Response("content", Render(l)) : l \in SectionLists}

\* what parse_response hands back when it falls off its except clause
NoneValue == [none |-> TRUE]

\* parse_response(gpt_response) of response_parser.py is called
MarkerParseCall ==
    /\ prog = "parse_response" /\ pc = "call"
    /\ \/ /\ response.kind = "error"                 \* lines 23-27: logged, sys.exit(1)
          /\ status' = "exit1"
          /\ logged' = Append(logged, Log("error", "response"))
          /\ UNCHANGED parsed
       \/ /\ response.kind = "error_no_message"      \* line 25: ['message'] raises, outside
          /\ status' = "crashed"                     \* the try
          /\ UNCHANGED <<parsed, logged>>
       \/ /\ response.kind \in {"no_choices", "no_content"}
          /\ status' = "returned"                    \* lines 76-77: printed, None returned
          /\ logged' = Append(logged, Log("print", "exception"))
          /\ parsed' = NoneValue
       \/ /\ response.kind = "content"               \* lines 29-74: nothing is logged
          /\ parsed' = MarkerParse(response.text)
          /\ status' = "returned"
          /\ UNCHANGED logged
    /\ pc' = "exit"
    /\ UNCHANGED <<process_time, time_report, platform, procs, processes, signalled, filepath,
                   proc_idx, first_call, same_dir, prog, image_files, idx, fs, fs0,
                   temp_image_path, response, info, processed_count, unprocessed_count,
                   filtered_files, item_fs, hist>>

\* parse_response(image_file, prompt, image_caption) of services/response_parser.py is
\* called: its line 28 calls process_photo with the keyword image_caption, which the
\* process_photo it imports (chatgpt_responder.py:22) does not take; the TypeError
\* leaves the function before a response is asked for, and nothing is logged
ServicesParseCall ==
    /\ prog = "services_parse_response" /\ pc = "call"
    /\ LET keywords == {"image_file", "prompt", "image_caption"}
           parameters == {"image_file", "prompt"}
       IN ~(keywords \subseteq parameters)
    /\ status' = "crashed"
    /\ pc' = "exit"
    /\ UNCHANGED <<process_time, time_report, logged, platform, procs, processes, signalled,
                   filepath, proc_idx, first_call, same_dir, prog, image_files, idx, fs, fs0,
                   temp_image_path, response, parsed, info, processed_count,
                   unprocessed_count, filtered_files, item_fs, hist>>

\* ImagesDescriber.parse_response is called, process_photo having returned response
DescriberParseCall ==
    /\ prog = "describer_parse" /\ pc = "call"
    /\ \/ /\ response.kind = "error"                 \* lines 133-135: logged, sys.exit(1)
          /\ status' = "exit1"
          /\ logged' = Append(logged, Log("error", "response"))
          /\ UNCHANGED parsed
       \/ /\ response.kind \in {"error_no_message", "no_choices", "no_content"}
          /\ status' = "crashed"                     \* line 134, 137 or 140 raises
          /\ UNCHANGED <<parsed, logged>>
       \/ /\ response.kind = "content"
          /\ parsed' = DescriberParse(response.text)
          /\ status' = "returned"
          /\ UNCHANGED logged
    /\ pc' = "exit"
    /\ UNCHANGED <<process_time, time_report, platform, procs, processes, signalled, filepath,
                   proc_idx, first_call, same_dir, prog, image_files, idx, fs, fs0,
                   temp_image_path, response, info, processed_count, unprocessed_count,
                   filtered_files, item_fs, hist>>

ParserInit ==
    /\ prog \in {"parse_response", "services_parse_response", "describer_parse"}
    /\ response \in ParserResponses
    /\ pc = "call"
    /\ same_dir = TRUE
    /\ image_files = <<>>
    /\ fs = NoFiles /\ fs0 = fs /\ item_fs = fs
    /\ idx = 1
    /\ temp_image_path = Unbound
    /\ parsed = NoParse
    /\ info = EmptyIptc
    /\ processed_count = 0 /\ unprocessed_count = 0
    /\ filtered_files = <<>>
    /\ status = "running"
    /\ hist = <<>>
    /\ first_call = NotCalled
    /\ LockIdle
    /\ ReportsIdle

ParserNext == MarkerParseCall \/ ServicesParseCall \/ DescriberParseCall

ParserSpec == ParserInit /\ [][ParserNext]_vars

(***************************************************************************)
(* Properties of the run                                                   *)
(***************************************************************************)
Describing == prog = "add_metadata"

Handled(n, what) == \E i \in 1..Len(hist) : hist[i].name = n /\ hist[i].outcome = what

LastOutcome == hist[Len(hist)]

\* the step appends an outcome of this kind for the current item
Records(what) == hist' # hist /\ hist'[Len(hist')].outcome = what

\* the items that hold a JPEG, the items with an image extension, the items' content
JpegItems == {n \in Universe : FormatOf(n) = "jpeg"}

ImageItems == {n \in Universe : HasImageExtension(n)}

Originals == [n \in Universe |-> Original(n)]

InTmp(p) == p.dir = TmpDir

\* C1: in add_metadata the destination path of a JPEG item changes only in the final move
\* of that item's temporary file, which then carries the container saved with the parsed
\* fields; an item that fails leaves the destination as it was when the item began.
C1_DestinationWrittenOnlyByMove ==
    [][Describing =>
        \A n \in JpegItems :
            LET d == DestinationPath(n) IN
            /\ FileAt(fs', d) # FileAt(fs, d) =>
                 /\ pc = "move" /\ CurrentItem = n /\ Records("processed")
                 /\ temp_image_path.bound
                 /\ FileAt(fs', d) = FileAt(fs, temp_image_path.path)
                 /\ FileAt(fs', d).iptc = WithFields(info, parsed, AuthorName)
                 /\ FileAt(fs', d).pix = FileAt(item_fs, ImagePath(n)).pix
            /\ (Records("failed") /\ CurrentItem = n) => FileAt(fs', d) = FileAt(item_fs, d)
      ]_vars

\* C1 witness: a.jpg was written over an older copy at the destination, and e.jpeg failed
\* after its temporary copy was made, its older copy still in place
C1_Witness ==
    /\ Describing /\ ~same_dir
    /\ Handled(A_JPG, "processed")
    /\ FileAt(fs0, DestinationPath(A_JPG)) = Older(A_JPG)
    /\ FileAt(fs, DestinationPath(A_JPG)).iptc.byline = AuthorName
    /\ \E i \in 1..Len(hist) : hist[i] = Outcome(E_JPEG, "failed", "io")
    /\ FileAt(fs, DestinationPath(E_JPEG)) = Older(E_JPEG)
    /\ Exists(fs, TempPath(CHOOSE i \in 1..Len(image_files) : image_files[i] = E_JPEG))

\* C2: once add_metadata has handled an image item, successfully or not, neither the
\* item's temporary file nor a '~' backup of the container save is left
C2_NoTempOrBackupLeft ==
    (Describing /\ pc = "loop" /\ hist # <<>>
       /\ LastOutcome.outcome \in {"processed", "failed"})
    => \A p \in DOMAIN fs : ~InTmp(p) /\ (p.name = <<>> \/ p.name[Len(p.name)] # "~")

\* C3: a failure of one image item is counted once and the later items are still handled
C3_FailureStaysAtItem ==
    (Describing /\ \E i \in 1..Len(hist) : hist[i].outcome = "failed")
    => /\ status # "crashed"
       /\ unprocessed_count = Cardinality({i \in 1..Len(hist) : hist[i].outcome = "failed"})

\* C4: handling a non-image item never ends the run, whether its move succeeded or not
C4_QuarantineNeverAborts ==
    (hist # <<>> /\ LastOutcome.outcome \in {"quarantined", "move_failed"})
    => status # "crashed"

\* C5: filter_files_by_extension skips a corrupt entry that has an image extension:
\* the file stays, is not accepted, and the function goes on to return the list
C5_CorruptEntrySkipped ==
    (prog = "filter" /\ \E i \in 1..Len(image_files) : image_files[i] = C_JPG)
    => /\ status # "crashed"
       /\ FileAt(fs, ImagePath(C_JPG)) = Original(C_JPG)
       /\ \A i \in 1..Len(filtered_files) : filtered_files[i] # C_JPG

\* the response carries an error field
CarriesError(r) == r.kind \in {"error", "error_no_message"}

\* C6: a response with an error field ends the process with a non-zero status at the
\* parse step: the step is not turned into an item failure, no count changes, and no
\* step of the program follows
C6_GeneratorErrorTerminates ==
    [][/\ status # "exit1"
       /\ (pc = "parse" /\ CarriesError(response))
            => /\ status' = "exit1"
               /\ Records("fatal")
               /\ processed_count' = processed_count
               /\ unprocessed_count' = unprocessed_count
               /\ idx' = idx
               /\ fs' = fs
       /\ status' = "exit1" => (pc = "parse" /\ CarriesError(response))
      ]_vars

\* C7 as stated: when the process ends on a generator error, no file has been moved,
\* rewritten or created by the run
C7_NothingModifiedAtExit == status = "exit1" => fs = fs0

\* C7 amended: when the process ends on a generator error, the files are as they were
\* when the handling of the item that met the error began; what the run did before
\* that item (earlier items, the filter pass, the CSV header) stays done
C7_ItemLeavesFilesUntouched ==
    status = "exit1" =>
        /\ fs = item_fs
        /\ (Describing /\ idx = 1) => fs = fs0

\* C7 witness: the error came on the second item, after the first one was rewritten
C7_Witness ==
    /\ Describing /\ status = "exit1" /\ idx = 2
    /\ Handled(image_files[1], "processed")
    /\ fs = item_fs /\ fs # fs0

\* C8: at the summary of add_metadata every item is processed, quarantined or failed,
\* and the two counts and the number of quarantined items add up to the number of items
C8_EveryItemHasOneOutcome ==
    (Describing /\ status = "done") =>
        /\ \A i \in 1..Len(image_files) :
               hist[i].name = image_files[i]
               /\ hist[i].outcome \in {"processed", "quarantined", "failed"}
        /\ processed_count + unprocessed_count
             + Cardinality({i \in 1..Len(hist) : hist[i].outcome = "quarantined"})
           = Len(image_files)

\* the run of the scenario: a.jpg, b.txt and c.jpg in some order, an empty destination
\* side, a generator that answers, and no fault of the environment
ScenarioRun ==
    /\ Describing
    /\ Len(image_files) = 3
    /\ {image_files[i] : i \in 1..3} = {A_JPG, B_TXT, C_JPG}
    /\ DOMAIN fs0 = {ImagePath(n) : n \in {A_JPG, B_TXT, C_JPG}}
    /\ \A i \in 1..Len(hist) : hist[i].why \in {"", "corrupt"}
    /\ pc = "exit"

\* C9: the scenario run, in any listing order, ends with a.jpg rewritten (Sunset,
\* A scene, [red, sky, calm]), b.txt under Not_Images, c.jpg untouched, and a summary
\* of 1 processed and 1 unprocessed
C9_MixedDirectoryScenario ==
    ScenarioRun =>
        /\ status = "done"
        /\ FileAt(fs, DestinationPath(A_JPG)).iptc =
             [present |-> TRUE, title |-> <<"S", "u", "n", "s", "e", "t">>,
              description |-> <<"A", " ", "s", "c", "e", "n", "e">>,
              keywords |-> << <<"r", "e", "d">>, <<"s", "k", "y">>, <<"c", "a", "l", "m">> >>,
              byline |-> AuthorName]
        /\ FileAt(fs, Path(NotImagesOf(DstDir), B_TXT)) = Original(B_TXT)
        /\ ~Exists(fs, ImagePath(B_TXT))
        /\ FileAt(fs, ImagePath(C_JPG)) = Original(C_JPG)
        /\ processed_count = 1 /\ unprocessed_count = 1

InNotImages(p) == p.dir \in {NotImagesOf(SrcDir), NotImagesOf(<<"dst">>)}

\* the names name_(1) .. name_(c)
NumberedUpTo(n, c) == {Numbered(n, j) : j \in 1..c}

\* C10: no step changes or removes a file that is in Not_Images, and a quarantine adds
\* exactly one path there: the file's own name if it was free, and otherwise the first
\* free one of name_(1), name_(2), ..., holding the file that was moved
C10_QuarantineNeverOverwrites ==
    [][/\ \A p \in DOMAIN fs : InNotImages(p) => (Exists(fs', p) /\ fs'[p] = fs[p])
       /\ Records("quarantined") =>
            LET n == hist'[Len(hist')].name
                dir == NotImagesOf(IF Describing THEN DstDir ELSE SrcDir)
                added == {p \in DOMAIN fs' : InNotImages(p)} \ DOMAIN fs
            IN \E q \in added :
                 /\ added = {q}
                 /\ q.dir = dir
                 /\ fs'[q] = fs[ImagePath(n)]
                 /\ ~Exists(fs', ImagePath(n))
                 /\ \/ q.name = n
                    \/ \E c \in 1..(MaxCollide + MaxItems) :
                         /\ q.name = Numbered(n, c)
                         /\ Exists(fs, Path(dir, n))
                         /\ \A m \in NumberedUpTo(n, c - 1) : Exists(fs, Path(dir, m))
      ]_vars

\* C10 witness: b.txt went to b_(2).txt, next to the b.txt and b_(1).txt already there
C10_Witness ==
    \E dir \in {NotImagesOf(SrcDir), NotImagesOf(<<"dst">>)} :
        /\ MaxCollide >= 2
        /\ FileAt(fs, Path(dir, Numbered(B_TXT, 2))) = Original(B_TXT)
        /\ ~Exists(fs0, Path(dir, Numbered(B_TXT, 2)))
        /\ FileAt(fs, Path(dir, B_TXT)) = File("text", "kept", EmptyIptc)
        /\ FileAt(fs, Path(dir, Numbered(B_TXT, 1))) = File("text", "kept", EmptyIptc)
        /\ Handled(B_TXT, "quarantined")

(***************************************************************************)
(* Properties of filter_files_by_extension                                 *)
(***************************************************************************)
FilterReturned == prog = "filter" /\ status = "returned"

\* the entries of the listing whose extension is not an image extension
NonImageEntries == {image_files[i] : i \in 1..Len(image_files)} \ ImageItems

\* the file system when the call that has returned began
CallStart == IF first_call.calls = 2 THEN first_call.fs ELSE fs0

\* what the call that has returned did with entry n of its listing
HandledByCall(n, what) ==
    \E i \in (Len(hist) - Len(image_files) + 1)..Len(hist) :
        hist[i].name = n /\ hist[i].outcome = what

\* a path under Not_Images of the source that the run created and that holds content c
MovedUnderNotImages(c) ==
    \E q \in DOMAIN fs : q.dir = NotImagesOf(SrcDir) /\ ~Exists(fs0, q) /\ fs[q] = c

\* the same for the call that has returned
MovedByCall(c) ==
    \E q \in DOMAIN fs : q.dir = NotImagesOf(SrcDir) /\ ~Exists(CallStart, q) /\ fs[q] = c

\* C11 as stated: when the filter has returned, every entry without an image extension
\* is under Not_Images and no longer at its original path
C11_AllNonImagesQuarantined ==
    FilterReturned =>
        \A n \in NonImageEntries :
            MovedByCall(CallStart[ImagePath(n)]) /\ ~Exists(fs, ImagePath(n))

\* C11 amended: when the filter has returned, every entry without an image extension
\* whose move did not fail is under Not_Images and no longer at its original path; an
\* entry whose move failed is still at its original path, unchanged, and is nowhere
\* under Not_Images
C11_NonImagesQuarantinedUnlessMoveFailed ==
    FilterReturned =>
        \A n \in NonImageEntries :
            /\ HandledByCall(n, "quarantined") \/ HandledByCall(n, "move_failed")
            /\ HandledByCall(n, "quarantined") =>
                  MovedByCall(CallStart[ImagePath(n)]) /\ ~Exists(fs, ImagePath(n))
            /\ HandledByCall(n, "move_failed") =>
                  /\ FileAt(fs, ImagePath(n)) = CallStart[ImagePath(n)]
                  /\ ~MovedByCall(CallStart[ImagePath(n)])

\* C11 witness: the filter has returned after moving b.txt next to an entry of the same
\* name, with an accepted JPEG in the same listing
C11_Witness ==
    /\ FilterReturned /\ first_call.calls = 1
    /\ Handled(B_TXT, "quarantined") /\ Handled(A_JPG, "accepted")
    /\ Exists(fs0, Path(NotImagesOf(SrcDir), B_TXT))
    /\ ~Exists(fs, ImagePath(B_TXT))
    /\ FileAt(fs, Path(NotImagesOf(SrcDir), Numbered(B_TXT, 1))) = Original(B_TXT)

\* C12: at every point of a run of the filter, every file that existed before the run
\* exists with the same content at its original path or at a new path under Not_Images,
\* and the number of files is the same as before the run
C12_FilterNeverDeletes ==
    prog = "filter" =>
        /\ \A p \in DOMAIN fs0 :
              \/ FileAt(fs, p) = fs0[p]
              \/ p.dir = SrcDir /\ MovedUnderNotImages(fs0[p])
        /\ Cardinality(DOMAIN fs) = Cardinality(DOMAIN fs0)

\* C12 witness: b.txt has left the source directory, and everything is still there
C12_Witness ==
    /\ prog = "filter" /\ Len(image_files) = MaxItems
    /\ ~Exists(fs, ImagePath(B_TXT)) /\ Exists(fs0, ImagePath(B_TXT))
    /\ MovedUnderNotImages(Original(B_TXT))
    /\ Cardinality(DOMAIN fs0) >= MaxItems + 1

\* the accepted names of a list, as a set
Accepted(files) == {files[i] : i \in 1..Len(files)}

\* the sequence with only its elements from the set keep, order kept
RECURSIVE Restrict(_, _)
Restrict(l, keep) ==
    IF l = <<>> THEN <<>>
    ELSE (IF Head(l) \in keep THEN <<Head(l)>> ELSE <<>>) \o Restrict(Tail(l), keep)

\* C13 as stated: once a call of the filter has returned, a second call on the same
\* directory, no file added in between, moves no file, leaves Not_Images unchanged and
\* returns the accepted list the first call returned
C13_SecondCallChangesNothing ==
    (prog = "filter" /\ first_call.calls >= 1) =>
        /\ fs = first_call.fs
        /\ first_call.calls = 2 => filtered_files = first_call.files

\* C13 (amended): once a call of the filter has returned with every non-image entry
\* moved, a second call on the same directory, no file added in between, moves no file
\* and leaves Not_Images unchanged, and it returns the names the first call returned,
\* each once, in the order of its own listing: the same list when the second listing
\* gives these names in the order of the first
C13_FilterIdempotent ==
    (prog = "filter" /\ first_call.calls >= 1 /\ first_call.moved_all) =>
        /\ fs = first_call.fs
        /\ (first_call.calls = 2) =>
              /\ filtered_files = Restrict(image_files, Accepted(first_call.files))
              /\ Accepted(filtered_files) = Accepted(first_call.files)
              /\ Len(filtered_files) = Len(first_call.files)
              /\ Restrict(image_files, Accepted(first_call.files)) = first_call.files
                    => filtered_files = first_call.files

\* C13 witness: the second call has returned; the first had moved b.txt, accepted a
\* JPEG and left a PNG in place
C13_Witness ==
    /\ prog = "filter" /\ first_call.calls = 2 /\ first_call.moved_all
    /\ status = "returned"
    /\ Handled(B_TXT, "quarantined")
    /\ first_call.files # <<>> /\ filtered_files = first_call.files
    /\ Exists(fs, ImagePath(D_PNG))

(***************************************************************************)
(* Properties of the parsers                                               *)
(***************************************************************************)
\* the sections the text of the response was made of
SectionsOf(text) == CHOOSE l \in SectionLists : Render(l) = text

Given == SectionsOf(response.text)

HasMarker(field) == \E i \in 1..Len(Given) : Given[i].field = field

ValueOf(field) == Given[CHOOSE i \in 1..Len(Given) : Given[i].field = field].value

\* the marker scan, or the describer's parser, has returned fields for generated text
MarkerParsed == prog = "parse_response" /\ status = "returned" /\ response.kind = "content"
DescriberParsed == prog = "describer_parse" /\ status = "returned" /\ response.kind = "content"

CharsOf(s) == {s[i] : i \in 1..Len(s)}

\* a value with punctuation and digits removed and the surrounding whitespace stripped
Cleaned(v) == Strip(FilterChars(v, Punctuation \cup Digits))

\* a keywords value cut at every run of commas and whitespace, each piece then cleaned
\* and lower-cased, the empty pieces dropped
RECURSIVE CleanEach(_)
CleanEach(toks) ==
    IF toks = <<>> THEN <<>>
    ELSE LET t == Lower(FilterChars(Head(toks), Punctuation \cup Digits))
         IN (IF t = <<>> THEN <<>> ELSE <<t>>) \o CleanEach(Tail(toks))

SplitThenClean(v) == CleanEach(SplitWs(ReplaceChar(v, ",", " "), <<>>))

\* C14: for text with the three markers in any order, the marker scan returns in each
\* field the cleaned value that stands between the field's marker and the next marker
C14_FieldsHoldOwnValueOnly ==
    (MarkerParsed /\ Len(Given) = 3) =>
        /\ parsed.title = Cleaned(ValueOf("title"))
        /\ parsed.description = Cleaned(ValueOf("description"))
        /\ \A i \in 1..Len(parsed.keywords.toks) :
              parsed.keywords.toks[i] \in
                {SplitThenClean(ValueOf("keywords"))[j] :
                   j \in 1..Len(SplitThenClean(ValueOf("keywords")))}
                \cup {Cleaned(FilterChars(Lower(ValueOf("keywords")), Whitespace))}

\* C15: every parser returns 'No Title', 'No Description' and an empty keyword sequence
\* for the markers the text does not have, and extracts the fields whose marker it has
C15_DefaultsForMissingMarkers ==
    (MarkerParsed \/ DescriberParsed) =>
        /\ IF HasMarker("title") THEN parsed.title # NoTitle ELSE parsed.title = NoTitle
        /\ IF HasMarker("description") THEN parsed.description # NoDescription
                                       ELSE parsed.description = NoDescription
        /\ IF HasMarker("keywords")
           THEN parsed.keywords.list /\ parsed.keywords.toks # <<>>
           ELSE parsed.keywords.list /\ parsed.keywords.toks = <<>>

\* C16: the marker scan cuts the text after the Keywords marker at every run of commas
\* and whitespace: keywords separated by a comma alone are separate tokens, in the
\* order of the text, none of them empty
C16_KeywordsSplitOnCommas ==
    (MarkerParsed /\ HasMarker("keywords") /\ Given[Len(Given)].field = "keywords") =>
        parsed.keywords.toks = SplitThenClean(ValueOf("keywords"))

\* the punctuation characters of every script: string.punctuation and the characters
\* of the Unicode categories Pc, Pd, Ps, Pe, Pi, Pf and Po
UnicodePunctuation == Punctuation \cup {
    "¡", "§", "«", "¶", "·", "»", "¿", "·", "։", "֊", "־", "׀", "׃", "׆", "׳", "״", "۔", "߷",
    "߸", "߹", "৽", "૰", "಄", "෴", "྅", "࿐", "࿑", "࿒", "࿓", "࿔", "࿙", "࿚", "჻", "᚛", "᚜", "᛫",
    "᛬", "᛭", "។", "៕", "៖", "៘", "៙", "៚", "᪠", "᪡", "᪢", "᪣", "᪤", "᪥", "᪦", "᪨", "᪩", "᪪",
    "᪫", "᪬", "᪭", "᯼", "᯽", "᯾", "᯿", "᳀", "᳁", "᳂", "᳃", "᳄", "᳅", "᳆", "᳇", "᳓", "₍", "₎",
    "⟅", "⟆", "⟦", "⟧", "⟨", "⟩", "⟪", "⟫", "⟬", "⟭", "⟮", "⟯", "⦃", "⦄", "⦅", "⦆", "⦇", "⦈",
    "⦉", "⦊", "⦋", "⦌", "⦍", "⦎", "⦏", "⦐", "⦑", "⦒", "⦓", "⦔", "⦕", "⦖", "⦗", "⦘", "⧘", "⧙",
    "⧚", "⧛", "⧼", "⧽", "⳹", "⳺", "⳻", "⳼", "⳾", "⳿", "゠", "・", "꓾", "꓿", "꛲", "꛳", "꛴", "꛵",
    "꛶", "꛷", "꣎", "꣏", "꣸", "꣹", "꣺", "꣼", "꧁", "꧂", "꧃", "꧄", "꧅", "꧆", "꧇", "꧈", "꧉", "꧊",
    "꧋", "꧌", "꧍", "꧞", "꧟", "꫞", "꫟", "꫰", "꫱", "꯫"}

\* C17: the title and the description returned by the marker scan hold no punctuation
\* character and no digit, of whatever script, and neither start nor end with
\* whitespace; every keyword is lower-case, str.lower() changing none of its
\* characters, and holds no punctuation, digit or whitespace character
C17_FieldsAreClean ==
    MarkerParsed =>
        /\ \A f \in {parsed.title, parsed.description} :
              /\ CharsOf(f) \cap UnicodePunctuation = {}
              /\ CharsOf(f) \cap UnicodeDigits = {}
              /\ f # <<>> => (f[1] \notin Whitespace /\ f[Len(f)] \notin Whitespace)
        /\ \A i \in 1..Len(parsed.keywords.toks) :
              LET k == parsed.keywords.toks[i]
              IN /\ CharsOf(k) \cap (UnicodePunctuation \cup Whitespace) = {}
                 /\ CharsOf(k) \cap UnicodeDigits = {}
                 /\ CharsOf(k) \cap (UpperCase \cup LowerUnwritable) = {}

(***************************************************************************)
(* Properties of the metadata written by add_metadata                      *)
(***************************************************************************)
\* what the describer's parser returns for the text generated for each item
ParsedTexts == [n \in Universe |-> DescriberParse(GeneratedText(n))]

ParsedFor(n) == ParsedTexts[n]

\* C18: once an item is counted as processed, the file at its destination path is the
\* item's image with object name, caption and keywords equal to the values parsed from
\* the text generated for that item, and the by-line equal to the author name
C18_MetadataEqualsParsed ==
    Describing =>
        /\ \A n \in Universe :
              Handled(n, "processed") =>
                /\ FileAt(fs, DestinationPath(n)).iptc =
                     [present |-> TRUE,
                      title |-> ParsedFor(n).title,
                      description |-> ParsedFor(n).description,
                      keywords |-> ParsedFor(n).keywords.toks,
                      byline |-> AuthorName]
                /\ FileAt(fs, DestinationPath(n)).fmt = "jpeg"
                /\ FileAt(fs, DestinationPath(n)).pix = Originals[n].pix
        /\ processed_count = Cardinality({i \in 1..Len(hist) : hist[i].outcome = "processed"})

\* C18 witness: two items with different generated text were processed in one run, and
\* each destination carries its own title
C18_Witness ==
    /\ Describing /\ processed_count = 2
    /\ Handled(A_JPG, "processed") /\ Handled(E_JPEG, "processed")
    /\ FileAt(fs, DestinationPath(A_JPG)).iptc.title = <<"S", "u", "n", "s", "e", "t">>
    /\ FileAt(fs, DestinationPath(E_JPEG)).iptc.title = <<"O", "l", "d", " ", "D", "o", "c", "k">>
    /\ FileAt(fs, DestinationPath(E_JPEG)).iptc.keywords = << <<"b", "o", "a", "t">>, <<"s", "e", "a">> >>
    /\ FileAt(fs0, ImagePath(E_JPEG)).iptc = OldCaption

(***************************************************************************)
(* Properties of the order of the steps of an item                         *)
(***************************************************************************)
\* the lock guard has been run for the current item and the item is not classified yet
LockClearedUnclassified == Describing /\ pc = "classify"

\* C19: the lock guard, the generator, the parser and the writer run only for an item
\* that was classified as an image, after its classification; an item that is
\* quarantined triggers none of them
C19_LockGuardOnlyForImages ==
    Describing =>
        /\ LockClearedUnclassified => IsImageItem(CurrentItem)
        /\ pc \in {"enumerate", "terminate", "wait"} => IsImageItem(CurrentItem)
        /\ pc \in {"parse", "verify", "copy", "load", "save", "move", "save_other"}
             => IsImageItem(CurrentItem)

(***************************************************************************)
(* Properties of the lock guard                                            *)
(***************************************************************************)
Reported == {processes[i] : i \in 1..Len(processes)}

LockReturned ==
    /\ prog = "terminate_processes_using_file" /\ status = "returned"
    /\ platform \in {"Darwin", "Windows"}

\* C20 as stated: when the lock guard returns on macOS or Windows, every process the
\* enumeration reported has been sent the termination signal, and every process the
\* signal was delivered to has exited
C20_EveryReportedProcessSignalled ==
    LockReturned =>
        /\ \A pid \in Reported : pid \in signalled
        /\ \A pid \in signalled : procs[pid].state \in {"exited", "gone"}

\* C20 (amended): when the lock guard returns on macOS or Windows, terminate_process
\* has dealt with every entry of the list; every process the enumeration reported was
\* sent the termination signal unless its pid no longer existed by then or the signal
\* was refused, and every process the signal was sent to has exited and is gone
C20_ReportedProcessesTerminated ==
    LockReturned =>
        /\ \A pid \in Reported :
              \/ pid \in signalled
              \/ procs[pid].state = "gone"
              \/ procs[pid].kind = "protected"
        /\ \A pid \in signalled : pid \in Reported /\ procs[pid].state = "gone"
        /\ proc_idx = Len(processes) + 1

\* C20 witness: two processes were reported; one was signalled and is gone, the other
\* refused the signal and is still running
C20_Witness ==
    /\ LockReturned /\ platform = "Darwin"
    /\ Cardinality(Reported) = 2
    /\ \E pid \in Reported : pid \in signalled /\ procs[pid].state = "gone"
    /\ \E pid \in Reported : procs[pid].kind = "protected" /\ procs[pid].state = "running"

\* terminate_process is about to deal with a holder it cannot terminate
TerminationFails ==
    /\ LockRunning /\ pc = "terminate" /\ proc_idx <= Len(processes)
    /\ Raised(processes[proc_idx]) # "none"

\* the step is one of the guard, not of the host
GuardStep == <<pc, proc_idx, status, logged>>' # <<pc, proc_idx, status, logged>>

\* the lines terminate_process has logged, one per call
TerminateLines ==
    {i \in DOMAIN logged : logged[i].about \in {"terminated", "NoSuchProcess", "AccessDenied"}}

\* C21: when terminating a holder fails because access is denied or the process is
\* gone, the failure is logged (an error, a warning) and nothing is raised: the guard
\* stays running, signals nothing, and goes on to the next holder of the list; once the
\* list is known the guard never ends in an uncaught exception; and when the list is
\* done terminate_process has been called, and has logged, once for every entry, the
\* guard returns normally, and in add_metadata the item goes on to the extension test
C21_TerminationFailureNotRaised ==
    [][/\ (TerminationFails /\ GuardStep) =>
             /\ status' = "running"
             /\ pc' = "terminate"
             /\ proc_idx' = proc_idx + 1
             /\ signalled' = signalled
             /\ \/ /\ procs[processes[proc_idx]].state = "gone"
                   /\ logged' = Append(logged, Log("warning", "NoSuchProcess"))
                \/ /\ procs[processes[proc_idx]].state # "gone"
                   /\ procs[processes[proc_idx]].kind = "protected"
                   /\ logged' = Append(logged, Log("error", "AccessDenied"))
       /\ (LockRunning /\ pc \in {"terminate", "wait"}) => status' # "crashed"
       /\ (LockRunning /\ pc = "terminate" /\ proc_idx > Len(processes) /\ GuardStep) =>
             /\ Cardinality(TerminateLines) = Len(processes)
             /\ prog = "add_metadata" =>
                   /\ status' = "running" /\ pc' = "classify"
                   /\ idx' = idx /\ fs' = fs /\ unprocessed_count' = unprocessed_count
             /\ prog # "add_metadata" => status' = "returned"
      ]_vars

\* C21 witness: the guard called by add_metadata has returned and the item is at its
\* extension test; an earlier holder of the list could not be terminated, which was
\* logged as an error, and a later holder was signalled all the same
C21_Witness ==
    /\ prog = "add_metadata" /\ status = "running" /\ pc = "classify"
    /\ \E i, j \in DOMAIN processes :
          /\ i < j
          /\ processes[i] \notin signalled
          /\ procs[processes[i]].kind = "protected"
          /\ processes[j] \in signalled
    /\ \E i \in DOMAIN logged : logged[i] = Log("error", "AccessDenied")

\* the Unix-like hosts among the platforms
UnixLike == {"Darwin", "Linux"}

\* C22: when the guard has returned, a Unix-like host has had the open-file-table
\* query and Windows the handle scan; on any other host nothing was enumerated and
\* nothing was signalled
C22_StrategyByPlatform ==
    (prog = "terminate_processes_using_file" /\ status = "returned") =>
        /\ platform \in UnixLike =>
              Strategy(platform) = "lsof"
        /\ platform = "Windows" =>
              Strategy(platform) = "psutil"
        /\ platform \notin UnixLike \cup {"Windows"} =>
              /\ Strategy(platform) = "unsupported"
              /\ processes = <<>> /\ signalled = {}

\* C23: while an item of add_metadata is handled, the temporary file of no other item
\* is tested for, created, changed or removed: the finally clause looks at a temporary
\* path only if it is the one of the current item
C23_TempOwnedByItem ==
    [][(Describing /\ status = "running" /\ idx <= Len(image_files)) =>
          /\ (pc = "finally" /\ temp_image_path.bound) =>
                 temp_image_path.path = TempPath(idx)
          /\ \A k \in 1..MaxItems :
                 k # idx => FileAt(fs', TempPath(k)) = FileAt(fs, TempPath(k))
      ]_vars

\* the names with a known image extension whose file is a valid image of a format
\* other than the one the writer rewrites
Unsupported == {n \in Universe : HasImageExtension(n) /\ FormatOf(n) \in {"png", "webp"}}

\* C24: in the classifier, the CSV generator and add_metadata alike, a valid image of
\* another format than JPEG with a known image extension is never accepted or
\* processed, and the files at its source path and at its destination path stay as
\* they were when the run began
C24_UnsupportedFormatLeftInPlace ==
    prog \in {"filter", "csv", "add_metadata"} =>
        \A n \in Unsupported :
            /\ \A i \in 1..Len(filtered_files) : filtered_files[i] # n
            /\ ~Handled(n, "processed") /\ ~Handled(n, "accepted")
            /\ FileAt(fs, ImagePath(n)) = FileAt(fs0, ImagePath(n))
            /\ FileAt(fs, DestinationPath(n)) = FileAt(fs0, DestinationPath(n))

\* C25: each of the three reporters writes an elapsed time of t whole seconds as
\* seconds when t < 60, as minutes and seconds when 60 <= t < 3600, and as hours,
\* minutes and seconds from 3600 on, the parts below 60 and adding up to t
C25_ElapsedTimeFormat ==
    (prog \in {"add_metadata_summary", "write_data_to_csv_summary", "execution_timer"} /\ status = "returned") =>
        LET t == process_time
            r == time_report
        IN /\ t < 60 => r.unit = "seconds" /\ r.seconds = t
           /\ (60 <= t /\ t < 3600) =>
                 /\ r.unit = "minutes"
                 /\ r.seconds < 60
                 /\ r.minutes * 60 + r.seconds = t
           /\ t >= 3600 =>
                 /\ r.unit = "hours"
                 /\ r.minutes < 60 /\ r.seconds < 60
                 /\ r.hours * 3600 + r.minutes * 60 + r.seconds = t

\* C26: when the marker scan returns fields for a text that lacks a marker, it has
\* logged a warning for every field it filled with the default
C26_DefaultsAreLogged ==
    MarkerParsed =>
        \A f \in Fields :
            ~HasMarker(f) => \E i \in 1..Len(logged) : logged[i] = Log("warning", f)

\* C28: for a response without an error field, parse_response has either raised or
\* returned a triple of title, description and keywords, never nothing
C28_ParserReturnsTripleOrRaises ==
    (prog \in {"parse_response", "services_parse_response", "describer_parse"}
       /\ pc = "exit" /\ ~CarriesError(response)) =>
        \/ status = "crashed"
        \/ status = "returned" /\ parsed # NoneValue
                               /\ DOMAIN parsed = {"title", "description", "keywords"}

\* C27: the lock guard comes to an end: the wait for a signalled holder to exit does
\* not go on forever
C27_LockGuardTerminates == <>(status # "running")

\* C29: when add_metadata writes to a destination directory other than the source
\* directory, the file at the source path of every image item stays as it was at the
\* start of the run, whether the item was written or failed
C29_SourceUntouched ==
    (Describing /\ ~same_dir) =>
        \A i \in 1..Len(image_files) :
            image_files[i] \in ImageItems =>
                FileAt(fs, ImagePath(image_files[i])) = Originals[image_files[i]]

\* C29 witness: a.jpg was written to the destination and is still at its source path
\* with its original content; e.jpeg failed after its temporary copy was made and is
\* unchanged at its source path
C29_Witness ==
    /\ Describing /\ ~same_dir /\ status = "done"
    /\ Handled(A_JPG, "processed")
    /\ FileAt(fs, ImagePath(A_JPG)) = Original(A_JPG)
    /\ Exists(fs, DestinationPath(A_JPG))
    /\ FileAt(fs, DestinationPath(A_JPG)).iptc # Original(A_JPG).iptc
    /\ Handled(E_JPEG, "failed")
    /\ Exists(fs, TempPath(CHOOSE i \in 1..Len(image_files) : image_files[i] = E_JPEG))
    /\ FileAt(fs, ImagePath(E_JPEG)) = Original(E_JPEG)

\* the accepted images write_data_to_csv has dealt with
CsvHandled == SubSeq(filtered_files, 1, idx - 1)

\* C30: the CSV file starts with the header row; its data rows are, in processing
\* order, those of the accepted images whose generation and parsing succeeded; every
\* accepted image that was dealt with either succeeded or failed, an image that
\* failed has no row, and a failure neither ends the run nor keeps it from the later
\* images; processed_count is the number of data rows, and at the summary every
\* accepted image was dealt with and processed and unprocessed add up to their number
C30_CsvRowsMatchSuccesses ==
    (prog = "csv" /\ Exists(fs, CsvPath)) =>
        LET rows == fs[CsvPath].rows
            succeeded == {n \in Accepted(CsvHandled) : Handled(n, "processed")}
        IN /\ rows[1] = HeaderRow
           /\ Len(rows) - 1 = Len(Restrict(CsvHandled, succeeded))
           /\ \A k \in 2..Len(rows) :
                 rows[k].image_name = Restrict(CsvHandled, succeeded)[k - 1]
           /\ \A i \in 1..Len(CsvHandled) :
                 \/ CsvHandled[i] \in succeeded
                 \/ /\ Handled(CsvHandled[i], "failed")
                    /\ \A k \in 2..Len(rows) : rows[k].image_name # CsvHandled[i]
           /\ status \in {"running", "done"}
           /\ processed_count = Len(rows) - 1
           /\ status = "done" =>
                 /\ CsvHandled = filtered_files
                 /\ processed_count + unprocessed_count = Len(filtered_files)

\* C30 witness: the run has written its summary; two images were accepted, the first
\* could not be opened and the call of the parser failed for the second; the file
\* holds the header row only and both images are counted as unprocessed
C30_Witness ==
    /\ prog = "csv" /\ status = "done"
    /\ Len(filtered_files) = 2
    /\ hist[Len(hist) - 1] = Outcome(filtered_files[1], "failed", "io")
    /\ hist[Len(hist)] = Outcome(filtered_files[2], "failed", "call")
    /\ fs[CsvPath].rows = <<HeaderRow>>
    /\ processed_count = 0 /\ unprocessed_count = 2

====
